---- MODULE Spec2Model ----
(***************************************************************************)
(* A model of the kova node core: the HotStuff-style consensus engine      *)
(* (protocol/consensus), the execution runtime (protocol/runtime) over the *)
(* in-memory state store (protocol/state), and the block production loop   *)
(* of the node (protocol/node).                                            *)
(*                                                                         *)
(* Cryptography is modelled symbolically: a hash is an injective tagged    *)
(* tuple of its pre-image, a signature is the pair (signing key, message)  *)
(* and verifies under a public key exactly when the pair matches.          *)
(***************************************************************************)
EXTENDS Integers, Sequences, FiniteSets, TLC

VARIABLES
    \* protocol/consensus, under test on its own
    engine,          \* the HotStuffInner of the engine under test
    last,            \* the last call on the engine: operation, argument, result
    ops,             \* number of state-changing engine calls made so far
    honest_stake,    \* every vote recorded so far carried the registered stake
    \* protocol/runtime over protocol/state
    workload,        \* the genesis and the clients of this run
    exec_ctx,        \* the ExecutionContext: the genesis parameters
    state_store,     \* the ChainState held by the InMemoryStateStore
    domain_runtime,  \* the DomainRuntime of the context
    chain_height,    \* the height of the last block applied with Ok
    clock,           \* the wall clock, in milliseconds
    run,             \* the last apply_block call: block, result and stages
    clean,           \* every apply_block call so far returned Ok
    txs_done,        \* number of transactions submitted so far
    unbond_requested,\* per owner, the sum of its successful Unstake/Undelegate
    unbond_credited, \* per owner, the sum process_unbondings added to its balance
    \* a second replica of the runtime, fed the same blocks
    peer,            \* its store, domain runtime, clock and last result
    \* protocol/node: the node around the engine and the runtime
    node,            \* its mempool, chain of sealed blocks and applied set
    history,         \* block ids in the order applied, certified and drained
    \* callers of one engine, each in a task of its own
    tasks,           \* the mutex, every task's position and the calls made
    \* protocol/node: several nodes on one LocalBus
    cluster,         \* every node with its engine, store and inbox
    \* protocol/da: the InMemoryDA layer and its callers
    da_layer,        \* blobs, commitments and the last proof produced
    \* protocol/node: two tasks of one node applying blocks to its store
    applying         \* the store and, per task, its position and its locals

consensusVars == <<engine, last, ops, honest_stake>>
runtimeVars == <<workload, exec_ctx, state_store, domain_runtime, chain_height,
                 clock, run, clean, txs_done, unbond_requested, unbond_credited>>
nodeVars == <<node, history>>

otherVars == <<tasks, cluster, da_layer, applying>>

vars == <<consensusVars, runtimeVars, peer, nodeVars, otherVars>>

----------------------------------------------------------------------------
(* Bounds of the exploration *)

MaxView == 2
MaxOps == 4
MaxVoteView == 0
MaxTxs == 3
MaxBlockTxs == 2
MaxHeight == 3
MaxTicks == 3
MaxUuids == 2

----------------------------------------------------------------------------
(* Containers *)

\* Option<T>: None is the empty sequence, Some(x) the one-element sequence
None == <<>>
Some(x) == <<x>>

\* HashMap: a function on the set of its keys
EmptyMap == [k \in {} |-> k]
MapPut(m, k, v) == [x \in (DOMAIN m) \cup {k} |-> IF x = k THEN v ELSE m[x]]
MapGetOr(m, k, d) == IF k \in DOMAIN m THEN m[k] ELSE d

Contains(seq, x) == \E i \in 1..Len(seq) : seq[i] = x

\* F applied to the value of v, which is computed once
Bind(v, F(_)) == CHOOSE y \in {F(x) : x \in {v}} : TRUE

RECURSIVE SumSeq(_)
SumSeq(seq) == IF seq = <<>> THEN 0 ELSE Head(seq) + SumSeq(Tail(seq))

----------------------------------------------------------------------------
(* Symbolic cryptography *)

ZeroHash == <<"zero", "">>

\* blake3::hash(pubkey): the address of a public key
address_from_pubkey(pk) == <<"addr", pk>>

\* blake3::hash(bincode(block)): the block identifier
hash_block(block) == <<"blk", block>>

\* a public key, which also names its key pair
Key(name) == <<"key", name>>

\* ed25519 signing: the signature of a message by a key pair
sign_bytes(key, msg) == <<"sig", <<key, msg>>>>

BadSignature == <<"sig", <<Key(""), <<"garbage", "">>>>>>

\* verify_signature_bytes: Ok (TRUE) iff the signature was made by the key
\* over the message
verify_signature_bytes(public_key, signature, msg) ==
    /\ signature[1] = "sig"
    /\ signature[2][1] = public_key
    /\ signature[2][2] = msg

\* bincode::serialize(&(block_id, view))
vote_signing_bytes(block_id, v) == <<"vote", <<block_id, v>>>>

sign_vote(block_id, v, key) == sign_bytes(key, vote_signing_bytes(block_id, v))

sign_proposal(block, key) == sign_bytes(key, hash_block(block))


----------------------------------------------------------------------------
(* protocol/consensus: HotStuffEngine *)

Validator(key, id, stake) ==
    [owner |-> address_from_pubkey(key), id |-> id, pubkey |-> key,
     stake |-> stake, status |-> "Active", commission_rate |-> 0]

\* HotStuffEngine::new
HotStuffEngine_new(vals) ==
    [validators |-> vals,
     total_stake |-> SumSeq([i \in 1..Len(vals) |-> vals[i].stake]),
     view |-> 0, height |-> 0, locked_qc |-> None, pending_qc |-> None,
     pending_blocks |-> EmptyMap, block_tree |-> EmptyMap,
     votes |-> EmptyMap, commit_queue |-> <<>>]

quorum_threshold_two_thirds(e) == (e.total_stake * 2) \div 3

\* HotStuffInner::quorum_threshold
quorum_threshold(e) == (e.total_stake * 2) \div 3 + 1

Max(a, b) == IF a >= b THEN a ELSE b
Min(a, b) == IF a <= b THEN a ELSE b

RECURSIVE leader_scan(_, _, _)
leader_scan(vals, i, slot) ==
    IF i > Len(vals) THEN Some(vals[1])
    ELSE IF slot < vals[i].stake THEN Some(vals[i])
    ELSE leader_scan(vals, i + 1, Max(slot - vals[i].stake, 0))

leader_for_view_round_robin(e, v) ==
    IF e.validators = <<>> THEN None
    ELSE Some(e.validators[(v % Len(e.validators)) + 1])

\* HotStuffInner::leader_for_view
leader_for_view(e, v) ==
    IF e.validators = <<>> THEN None
    ELSE leader_scan(e.validators, 1, v % Max(e.total_stake, 1))

\* verify_proposal: TRUE for Ok
verify_proposal(proposal, block_id) ==
    /\ address_from_pubkey(proposal.public_key) = proposal.block.header.proposer_id
    /\ verify_signature_bytes(proposal.public_key, proposal.signature, block_id)

verify_vote_registered_only(vote, vals) ==
    /\ \E i \in 1..Len(vals) : vals[i].id = vote.voter.id
    /\ \E i \in 1..Len(vals) :
          vals[i].id = vote.voter.id /\ vals[i].pubkey = vote.voter.pubkey

\* verify_vote: TRUE for Ok
verify_vote(vote, vals) ==
    /\ \E i \in 1..Len(vals) : vals[i].id = vote.voter.id
    /\ LET first == CHOOSE i \in 1..Len(vals) :
                       /\ vals[i].id = vote.voter.id
                       /\ \A j \in 1..(i - 1) : vals[j].id # vote.voter.id
       IN vals[first].pubkey = vote.voter.pubkey
    /\ verify_signature_bytes(vote.voter.pubkey, vote.signature,
                              vote_signing_bytes(vote.block_id, vote.view))

propose_unverified(e, proposal) ==
    LET block_id == hash_block(proposal.block) IN
    [ok |-> verify_proposal(proposal, block_id),
     e |-> [e EXCEPT !.pending_blocks = MapPut(@, block_id, proposal.block),
                     !.block_tree = MapPut(@, block_id, proposal.block),
                     !.view = @ + 1]]

\* ConsensusEngine::propose
propose(e, proposal) ==
    LET block_id == hash_block(proposal.block) IN
    IF ~verify_proposal(proposal, block_id) THEN [ok |-> FALSE, e |-> e]
    ELSE [ok |-> TRUE,
          e |-> [e EXCEPT !.pending_blocks = MapPut(@, block_id, proposal.block),
                          !.block_tree = MapPut(@, block_id, proposal.block),
                          !.view = @ + 1]]

VoteTally_default == [stake |-> 0, voters |-> <<>>, signatures |-> <<>>]

already_voted_never(tally, id) == FALSE

\* tally.voters.contains(&vote.voter.id)
already_voted(tally, id) == Contains(tally.voters, id)

\* ConsensusEngine::vote
vote(e, vt) ==
    IF ~verify_vote(vt, e.validators) THEN [ok |-> FALSE, e |-> e]
    ELSE
    LET key == <<vt.block_id, vt.view>>
        threshold == quorum_threshold(e)
        tally == MapGetOr(e.votes, key, VoteTally_default)
    IN
    IF already_voted(tally, vt.voter.id) THEN [ok |-> TRUE, e |-> e]
    ELSE
    LET tally2 == [stake |-> tally.stake + vt.voter.stake,
                   voters |-> Append(tally.voters, vt.voter.id),
                   signatures |-> Append(tally.signatures, vt.signature)]
        e2 == [e EXCEPT !.votes = MapPut(@, key, tally2)]
        qc == [block_id |-> vt.block_id, view |-> vt.view,
               signatures |-> tally2.signatures, voters |-> tally2.voters]
    IN
    IF tally2.stake >= threshold
    THEN [ok |-> TRUE,
          e |-> [e2 EXCEPT !.pending_qc = Some(qc), !.locked_qc = Some(qc),
                           !.commit_queue = Append(@, vt.block_id)]]
    ELSE [ok |-> TRUE, e |-> e2]

\* ConsensusEngine::on_qc
on_qc(e, qc) ==
    LET e2 == [e EXCEPT !.locked_qc = Some(qc), !.height = @ + 1] IN
    IF qc.block_id \in DOMAIN e.block_tree
       /\ e.block_tree[qc.block_id].header.parent_hash # ZeroHash
    THEN [ok |-> TRUE,
          e |-> [e2 EXCEPT !.commit_queue =
                     Append(@, e.block_tree[qc.block_id].header.parent_hash)]]
    ELSE [ok |-> TRUE, e |-> e2]

on_timeout_discarding_votes(e, v) ==
    IF v = e.view THEN [ok |-> TRUE, e |-> [e EXCEPT !.view = @ + 1, !.votes = EmptyMap]]
    ELSE [ok |-> TRUE, e |-> e]

\* ConsensusEngine::on_timeout
on_timeout(e, v) ==
    IF v = e.view THEN [ok |-> TRUE, e |-> [e EXCEPT !.view = @ + 1]]
    ELSE [ok |-> TRUE, e |-> e]

\* ConsensusEngine::record_slash
record_slash(e, evidence) ==
    [ok |-> TRUE,
     e |-> [e EXCEPT !.commit_queue = Append(@, <<"blake3", evidence.validator_id>>)]]

\* ConsensusEngine::pop_commit: the popped id (an Option) and the engine after
pop_commit(e) ==
    IF e.commit_queue = <<>> THEN [ret |-> None, e |-> e]
    ELSE [ret |-> Some(Head(e.commit_queue)),
          e |-> [e EXCEPT !.commit_queue = Tail(@)]]

----------------------------------------------------------------------------
(* u128 arithmetic.  A u128 x is represented by x itself when it is small   *)
(* and by x - 2^128 (a negative number) when it lies just below 2^128, so   *)
(* that sums that pass 2^128 - 1 are seen as the overflows they are.        *)

\* x < y on u128
ULt(x, y) == IF (x >= 0) = (y >= 0) THEN x < y ELSE x >= 0

\* u128::checked_add: None on overflow
checked_add(x, y) ==
    IF (x < 0 /\ y < 0) \/ ((x < 0 \/ y < 0) /\ x + y >= 0) THEN None ELSE Some(x + y)

\* u128::checked_sub: None on underflow
checked_sub(x, y) == IF ULt(x, y) THEN None ELSE Some(x - y)

----------------------------------------------------------------------------
(* protocol/state: accounts and the in-memory store *)

Account(address, nonce, balance) ==
    [address |-> address, nonce |-> nonce, balance_x |-> balance]

default_account(address) == Account(address, 0, 0)

FeePools_default == [l1_gas |-> 0, da |-> 0, sequencer |-> 0, treasury |-> 0]

PrivacyPool_default ==
    [merkle_root |-> ZeroHash, nullifiers |-> <<>>, commitments |-> <<>>,
     total_shielded |-> 0]

GovernanceParams_default ==
    [voting_period_ms |-> 3600000, timelock_ms |-> 1800000, quorum_bps |-> 2000,
     approval_threshold_bps |-> 5000, multisig_signers |-> <<>>,
     multisig_threshold |-> 1]

ChainState_default ==
    [accounts |-> EmptyMap, validators |-> EmptyMap, delegations |-> <<>>,
     domains |-> EmptyMap, da_commitments |-> <<>>, domain_roots |-> EmptyMap,
     proposals |-> EmptyMap, fee_pools |-> FeePools_default,
     privacy_pools |-> EmptyMap, governance_params |-> GovernanceParams_default,
     total_supply |-> 0, last_reward_height |-> 0, pending_unbonds |-> <<>>]

\* StateStore::get_account followed by unwrap_or(default_account(address))
get_account(s, address) ==
    IF address \in DOMAIN s.accounts THEN s.accounts[address] ELSE default_account(address)

\* StateStore::put_account
put_account(s, account) == [s EXCEPT !.accounts = MapPut(@, account.address, account)]

\* sync_accounts_from_store, then StateStore::put_chain_state: the chain
\* state worked on replaces the stored one, with the accounts of the store
put_chain_state(s, chain) == [chain EXCEPT !.accounts = s.accounts]

----------------------------------------------------------------------------
(* protocol/runtime: transactions *)

\* bincode of the signable tuple of a transaction
tx_signing_bytes(tx) ==
    <<"tx", <<tx.chain_id, tx.nonce, tx.max_fee, tx.max_priority_fee, tx.gas_price,
              tx.payload, tx.public_key>>>>

\* verify_tx_signature: the sender address, or None when verification fails
verify_tx_signature(tx) ==
    IF verify_signature_bytes(tx.public_key, tx.signature, tx_signing_bytes(tx))
    THEN Some(address_from_pubkey(tx.public_key)) ELSE None

gas_cost(payload) ==
    CASE payload.kind = "Transfer" -> 21000
      [] payload.kind \in {"Stake", "Unstake"} -> 50000
      [] payload.kind \in {"Delegate", "Undelegate"} -> 60000
      [] payload.kind = "Slash" -> 70000
      [] payload.kind = "PrivacyDeposit" -> 80000
      [] payload.kind = "PrivacyWithdraw" -> 120000
      [] payload.kind = "GovernanceExecute" -> 80000
      [] payload.kind = "DomainExecute" -> 200000
      [] payload.kind = "CrossDomainSend" -> 90000
      [] payload.kind = "CrossDomainRelay" -> 50000
      [] payload.kind = "FraudChallenge" -> 150000
      [] OTHER -> 50000

effective_gas_price(tx, base_fee) ==
    IF tx.max_fee # None
    THEN LET priority == IF tx.max_priority_fee # None THEN tx.max_priority_fee[1] ELSE 0
             total == base_fee + priority
         IN IF tx.max_fee[1] < total THEN tx.max_fee[1] ELSE total
    ELSE IF tx.gas_price # None THEN tx.gas_price[1]
    ELSE base_fee

\* ensure_funds: TRUE for Ok
ensure_funds(account, amount, gas_fee) == ~ULt(account.balance_x, amount + gas_fee)

\* route_gas_fee with the whole fee sent to the treasury
route_gas_fee_to_treasury(chain, gas_fee, split) ==
    [chain EXCEPT !.fee_pools.treasury = @ + gas_fee]

route_gas_fee(chain, gas_fee, split) ==
    LET burn == (gas_fee * split.l1_gas_burn_pct) \div 100
        to_validators == (gas_fee * split.l1_gas_validators_pct) \div 100
    IN [chain EXCEPT !.fee_pools.l1_gas = @ + to_validators,
                     !.fee_pools.treasury = @ + burn]

validator_id_from_pubkey(pubkey) == <<"uuid5", pubkey>>

\* chain.validators.values().find(|v| v.owner == owner): the id, as an Option
find_validator(chain, owner) ==
    LET ids == {id \in DOMAIN chain.validators : chain.validators[id].owner = owner}
    IN IF ids = {} THEN None ELSE Some(CHOOSE id \in ids : TRUE)

\* the result of apply_tx: Ok or Err, with the store and the domain runtime
\* as the call left them
TxOk(s, d, gas) == [ok |-> TRUE, store |-> s, domains |-> d, gas_used |-> gas]
TxErr(s, d) == [ok |-> FALSE, store |-> s, domains |-> d, gas_used |-> 0]

\* the common tail of the payload arms: debit the sender, bump its nonce, put
\* the account, route the gas fee, sync the accounts and put the chain state
settle(ctx, s, d, chain, sender_account, debit, gas_fee, gas_used) ==
    IF checked_sub(sender_account.balance_x, debit) = None THEN TxErr(s, d)
    ELSE LET s1 == put_account(s, [sender_account EXCEPT
                                      !.balance_x = @ - debit, !.nonce = @ + 1])
         IN TxOk(put_chain_state(s1, route_gas_fee(chain, gas_fee, ctx.fee_split)),
                 d, gas_used)

(* The arms of apply_tx.  Each takes the call frame c: the context, the    *)
(* store s and the domain runtime d at the call, the transaction, its       *)
(* sender and sender account, the gas fee and gas used, the block height,   *)
(* and what the call draws from outside: a random uuid and the clock.       *)

apply_Transfer(c) ==
    LET p == c.tx.payload IN
    IF ~ensure_funds(c.sender_account, p.amount, c.gas_fee) THEN TxErr(c.s, c.d)
    ELSE
    LET s1 == put_account(c.s, [c.sender_account EXCEPT
                                   !.balance_x = @ - (p.amount + c.gas_fee),
                                   !.nonce = @ + 1])
        to_account == get_account(s1, p.to)
        credited == checked_add(to_account.balance_x, p.amount)
    IN
    IF credited = None THEN TxErr(s1, c.d)
    ELSE
    LET s2 == put_account(s1, [to_account EXCEPT !.balance_x = credited[1]])
    IN TxOk(put_chain_state(s2, route_gas_fee(c.s, c.gas_fee, c.ctx.fee_split)),
            c.d, c.gas_used)

apply_Stake(c) ==
    LET p == c.tx.payload IN
    IF ~ensure_funds(c.sender_account, p.amount, c.gas_fee) THEN TxErr(c.s, c.d)
    ELSE
    LET s1 == put_account(c.s, [c.sender_account EXCEPT
                                   !.balance_x = @ - (p.amount + c.gas_fee),
                                   !.nonce = @ + 1])
        found == find_validator(c.s, c.sender)
        chain ==
            IF found # None
            THEN [c.s EXCEPT !.validators = MapPut(@, found[1],
                     [c.s.validators[found[1]] EXCEPT !.stake = @ + p.amount,
                                                      !.status = "Active"])]
            ELSE [c.s EXCEPT !.validators = MapPut(@, c.uuid,
                     [owner |-> c.sender, id |-> c.uuid, pubkey |-> c.tx.signature,
                      stake |-> p.amount, status |-> "Active", commission_rate |-> 0])]
    IN TxOk(put_chain_state(s1, route_gas_fee(chain, c.gas_fee, c.ctx.fee_split)),
            c.d, c.gas_used)

Unbonding(owner, validator_id, amount, release_height) ==
    [owner |-> owner, validator_id |-> Some(validator_id), amount |-> amount,
     release_height |-> release_height]

apply_Unstake(c) ==
    LET p == c.tx.payload
        found == find_validator(c.s, c.sender)
    IN
    IF ULt(c.sender_account.balance_x, c.gas_fee) THEN TxErr(c.s, c.d)
    ELSE IF found = None THEN TxErr(c.s, c.d)
    ELSE IF c.s.validators[found[1]].stake < p.amount THEN TxErr(c.s, c.d)
    ELSE
    LET left == c.s.validators[found[1]].stake - p.amount
        chain == [c.s EXCEPT
                    !.validators = MapPut(@, found[1],
                        [c.s.validators[found[1]] EXCEPT
                            !.stake = left,
                            !.status = IF left = 0 THEN "Exited" ELSE @]),
                    !.pending_unbonds = Append(@,
                        Unbonding(c.sender, found[1], p.amount,
                                  c.height + c.ctx.unbonding_delay_blocks))]
    IN settle(c.ctx, c.s, c.d, chain, c.sender_account, c.gas_fee, c.gas_fee, c.gas_used)

apply_Delegate(c) ==
    LET p == c.tx.payload
        found == find_validator(c.s, p.validator)
    IN
    IF ~ensure_funds(c.sender_account, p.amount, c.gas_fee) THEN TxErr(c.s, c.d)
    ELSE IF found = None THEN TxErr(c.s, c.d)
    ELSE
    LET chain == [c.s EXCEPT
                    !.validators = MapPut(@, found[1],
                        [c.s.validators[found[1]] EXCEPT !.stake = @ + p.amount]),
                    !.delegations = Append(@, [delegator |-> c.sender,
                                               validator_id |-> found[1],
                                               stake |-> p.amount])]
    IN settle(c.ctx, c.s, c.d, chain, c.sender_account, p.amount + c.gas_fee,
              c.gas_fee, c.gas_used)

\* the index of the first delegation row of the delegator with the validator,
\* 0 when there is none
first_delegation(delegations, delegator, validator_id) ==
    LET rows == {i \in 1..Len(delegations) :
                    /\ delegations[i].delegator = delegator
                    /\ delegations[i].validator_id = validator_id}
    IN IF rows = {} THEN 0 ELSE CHOOSE i \in rows : \A j \in rows : i <= j

positive_stake(row) == row.stake > 0

apply_Undelegate(c) ==
    LET p == c.tx.payload
        found == find_validator(c.s, p.validator)
    IN
    IF found = None THEN TxErr(c.s, c.d)
    ELSE
    LET row == first_delegation(c.s.delegations, c.sender, found[1]) IN
    IF row # 0 /\ c.s.delegations[row].stake < p.amount THEN TxErr(c.s, c.d)
    ELSE IF row = 0 THEN TxErr(c.s, c.d)
    ELSE
    LET reduced == [i \in 1..Len(c.s.delegations) |->
                      IF i = row
                      THEN [c.s.delegations[i] EXCEPT !.stake = @ - p.amount]
                      ELSE c.s.delegations[i]]
        chain == [c.s EXCEPT
                    !.validators = MapPut(@, found[1],
                        [c.s.validators[found[1]] EXCEPT
                            !.stake = Max(@ - p.amount, 0)]),
                    !.delegations = SelectSeq(reduced, positive_stake),
                    !.pending_unbonds = Append(@,
                        Unbonding(c.sender, found[1], p.amount,
                                  c.height + c.ctx.unbonding_delay_blocks))]
    IN settle(c.ctx, c.s, c.d, chain, c.sender_account, c.gas_fee, c.gas_fee, c.gas_used)

apply_Slash(c) ==
    LET p == c.tx.payload
        found == find_validator(c.s, p.validator)
    IN
    IF found = None THEN TxErr(c.s, c.d)
    ELSE
    LET v == c.s.validators[found[1]]
        stake_before == v.stake
        effective_bps == Min(IF p.penalty_bps = 0 THEN c.ctx.slash_penalty_bps
                             ELSE p.penalty_bps, 10000)
        penalty == (stake_before * effective_bps) \div 10000
    IN
    IF stake_before = 0 THEN TxErr(c.s, c.d)
    ELSE IF penalty = 0 THEN TxErr(c.s, c.d)
    ELSE
    LET cut_row(row) ==
            IF row.validator_id = v.id
            THEN [row EXCEPT !.stake = Max(@ - ((penalty * @) \div stake_before), 0)]
            ELSE row
        cut_rows == [i \in 1..Len(c.s.delegations) |-> cut_row(c.s.delegations[i])]
        left == Max(v.stake - penalty, 0)
        chain == [c.s EXCEPT
                    !.delegations = SelectSeq(cut_rows, positive_stake),
                    !.validators = MapPut(@, found[1],
                        [c.s.validators[found[1]] EXCEPT
                            !.stake = left,
                            !.status = IF left = 0 THEN "Jailed" ELSE @]),
                    !.fee_pools.treasury = @ + penalty]
    IN settle(c.ctx, c.s, c.d, chain, c.sender_account, c.gas_fee, c.gas_fee, c.gas_used)

apply_RollupBridgeDeposit(c) ==
    LET p == c.tx.payload IN
    IF ~ensure_funds(c.sender_account, p.amount, c.gas_fee) THEN TxErr(c.s, c.d)
    ELSE
    LET s1 == put_account(c.s, [c.sender_account EXCEPT
                                   !.balance_x = @ - (p.amount + c.gas_fee),
                                   !.nonce = @ + 1])
        chain == [c.s EXCEPT !.fee_pools.treasury = @ + p.amount]
    IN TxOk(put_chain_state(s1, route_gas_fee(chain, c.gas_fee, c.ctx.fee_split)),
            c.d, c.gas_used)

apply_RollupBridgeWithdraw(c) ==
    LET p == c.tx.payload
        credited == checked_add(c.sender_account.balance_x, p.amount)
    IN
    IF credited = None THEN TxErr(c.s, c.d)
    ELSE settle(c.ctx, c.s, c.d, c.s, [c.sender_account EXCEPT !.balance_x = credited[1]],
                c.gas_fee, c.gas_fee, c.gas_used)

\* the key of the one pool the runtime uses
Shielded == <<"pool", "shielded">>

\* ensure_privacy_pool: the chain state with the "shielded" pool present
ensure_privacy_pool(chain) ==
    IF Shielded \in DOMAIN chain.privacy_pools THEN chain
    ELSE [chain EXCEPT !.privacy_pools = MapPut(@, Shielded, PrivacyPool_default)]

\* the hash of the sorted leaf hashes: a function of the set of commitments
compute_merkle_root(commitments) ==
    IF commitments = <<>> THEN ZeroHash
    ELSE <<"mroot", {commitments[i] : i \in 1..Len(commitments)}>>

\* zk_program_privacy::commitments
privacy_commitments(input) ==
    <<"commitments", <<input.merkle_root, input.nullifier, input.commitment>>>>

\* zk_program_privacy::stub_withdraw_proof
stub_withdraw_proof(input) ==
    [backend |-> "stub", program_id |-> "PrivacyWithdraw",
     proof |-> <<"stub", <<input, privacy_commitments(input)>>>>,
     commitments |-> privacy_commitments(input)]

\* verify_privacy_withdraw with no zk backend configured: TRUE for Ok
verify_privacy_withdraw(input, artifact) ==
    /\ artifact.program_id = "PrivacyWithdraw"
    /\ artifact.commitments = privacy_commitments(input)
    /\ artifact.backend = "stub"
    /\ artifact.proof = stub_withdraw_proof(input).proof

apply_PrivacyDeposit(c) ==
    LET p == c.tx.payload
        chain0 == ensure_privacy_pool(c.s)
        pool == chain0.privacy_pools[Shielded]
    IN
    IF p.amount = 0 THEN TxErr(c.s, c.d)
    ELSE IF ~ensure_funds(c.sender_account, p.amount, c.gas_fee) THEN TxErr(c.s, c.d)
    ELSE IF Contains(pool.commitments, p.commitment) THEN TxErr(c.s, c.d)
    ELSE
    LET commitments == Append(pool.commitments, p.commitment)
        chain == [chain0 EXCEPT !.privacy_pools = MapPut(@, Shielded,
                    [pool EXCEPT !.commitments = commitments,
                                 !.total_shielded = @ + p.amount,
                                 !.merkle_root = compute_merkle_root(commitments)])]
    IN settle(c.ctx, c.s, c.d, chain, c.sender_account, p.amount + c.gas_fee,
              c.gas_fee, c.gas_used)

nullifier_spent_never(pool, nullifier) == FALSE

\* the first check of the PrivacyWithdraw arm: "nullifier already spent"
nullifier_spent(pool, nullifier) == Contains(pool.nullifiers, nullifier)

apply_PrivacyWithdraw(c) ==
    LET p == c.tx.payload
        chain0 == ensure_privacy_pool(c.s)
        pool == chain0.privacy_pools[Shielded]
        input == [nullifier |-> p.nullifier, merkle_root |-> p.merkle_root,
                  recipient |-> p.recipient, amount |-> p.amount,
                  commitment |-> p.commitment]
    IN
    IF p.amount = 0 THEN TxErr(c.s, c.d)
    ELSE IF nullifier_spent(pool, p.nullifier) THEN TxErr(c.s, c.d)
    ELSE IF pool.merkle_root # p.merkle_root THEN TxErr(c.s, c.d)
    ELSE IF ~Contains(pool.commitments, p.commitment) THEN TxErr(c.s, c.d)
    ELSE IF pool.total_shielded < p.amount THEN TxErr(c.s, c.d)
    ELSE IF ~verify_privacy_withdraw(input, p.proof) THEN TxErr(c.s, c.d)
    ELSE
    LET chain == [chain0 EXCEPT !.privacy_pools = MapPut(@, Shielded,
                    [pool EXCEPT !.nullifiers = Append(@, p.nullifier),
                                 !.total_shielded = Max(@ - p.amount, 0)])]
        to_account == get_account(c.s, p.recipient)
        credited == checked_add(to_account.balance_x, p.amount)
    IN
    IF credited = None THEN TxErr(c.s, c.d)
    ELSE
    LET s1 == put_account(c.s, [to_account EXCEPT !.balance_x = credited[1]])
    IN settle(c.ctx, s1, c.d, chain, c.sender_account, c.gas_fee, c.gas_fee, c.gas_used)

RECURSIVE SumOver(_, _)
SumOver(m, keys) ==
    IF keys = {} THEN 0
    ELSE LET k == CHOOSE x \in keys : TRUE IN m[k] + SumOver(m, keys \ {k})

\* snapshot_validator_weights: owner -> stake
snapshot_validator_weights(chain) ==
    LET owners == {chain.validators[id].owner : id \in DOMAIN chain.validators}
    IN [o \in owners |->
           chain.validators[CHOOSE id \in DOMAIN chain.validators :
                                chain.validators[id].owner = o].stake]

quorum_met(p, params) ==
    LET participated == p.for_votes + p.against_votes + p.abstain_votes IN
    /\ p.snapshot_total_stake # 0
    /\ participated * 10000 >= params.quorum_bps * p.snapshot_total_stake

approval_met(p, params) ==
    LET total == p.for_votes + p.against_votes + p.abstain_votes IN
    /\ total # 0
    /\ p.for_votes * 10000 >= params.approval_threshold_bps * total

finalize_proposal(p, params, now) ==
    IF p.status # "Active" THEN p
    ELSE IF now < p.end THEN p
    ELSE IF ~quorum_met(p, params) THEN [p EXCEPT !.status = "Defeated"]
    ELSE IF approval_met(p, params)
         THEN [p EXCEPT !.status = "Queued", !.eta = Some(now + params.timelock_ms)]
    ELSE [p EXCEPT !.status = "Defeated"]

\* TRUE for Ok
ensure_multisig_eligibility(params, signer) ==
    params.multisig_signers = <<>> \/ Contains(params.multisig_signers, signer)

\* TRUE for Ok
ensure_multisig_threshold_met(params, approvals) ==
    \/ params.multisig_signers = <<>>
    \/ Cardinality({approvals[i] : i \in 1..Len(approvals)}) >= params.multisig_threshold

apply_GovernanceProposal(c) ==
    LET p == c.tx.payload
        voter_weights == snapshot_validator_weights(c.s)
        proposal ==
            [id |-> c.uuid, payload |-> p.payload,
             kind |-> IF p.prop_kind = None THEN "general" ELSE p.prop_kind[1],
             status |-> "Active", proposer |-> c.sender,
             start |-> c.now, end |-> c.now + c.s.governance_params.voting_period_ms,
             eta |-> None,
             snapshot_total_stake |-> SumOver(voter_weights, DOMAIN voter_weights),
             for_votes |-> 0, against_votes |-> 0, abstain_votes |-> 0,
             votes |-> <<>>, execution |-> p.payload,
             voter_weights |-> voter_weights, approvals |-> <<>>]
        chain == [c.s EXCEPT !.proposals = MapPut(@, c.uuid, proposal)]
    IN settle(c.ctx, c.s, c.d, chain, c.sender_account, c.gas_fee, c.gas_fee, c.gas_used)

apply_GovernanceVote_again(c) ==
    LET p == c.tx.payload IN
    IF p.proposal_id \notin DOMAIN c.s.proposals THEN TxErr(c.s, c.d)
    ELSE
    LET prop == c.s.proposals[p.proposal_id]
        weight == MapGetOr(prop.voter_weights, c.sender, 0)
    IN
    IF prop.status # "Active" THEN TxErr(c.s, c.d)
    ELSE IF c.now > prop.end THEN TxErr(c.s, c.d)
    ELSE IF weight = 0 THEN TxErr(c.s, c.d)
    ELSE
    LET voted == [prop EXCEPT
                    !.for_votes = IF p.support = "For" THEN @ + weight ELSE @,
                    !.against_votes = IF p.support = "Against" THEN @ + weight ELSE @,
                    !.abstain_votes = IF p.support = "Abstain" THEN @ + weight ELSE @,
                    !.votes = Append(@, [voter |-> c.sender, choice |-> p.support,
                                         weight |-> weight])]
        chain == [c.s EXCEPT !.proposals = MapPut(@, p.proposal_id,
                     finalize_proposal(voted, c.s.governance_params, c.now))]
    IN settle(c.ctx, c.s, c.d, chain, c.sender_account, c.gas_fee, c.gas_fee, c.gas_used)

apply_GovernanceVote(c) ==
    LET p == c.tx.payload IN
    IF p.proposal_id \notin DOMAIN c.s.proposals THEN TxErr(c.s, c.d)
    ELSE
    LET prop == c.s.proposals[p.proposal_id]
        weight == MapGetOr(prop.voter_weights, c.sender, 0)
    IN
    IF prop.status # "Active" THEN TxErr(c.s, c.d)
    ELSE IF c.now > prop.end THEN TxErr(c.s, c.d)
    ELSE IF \E i \in 1..Len(prop.votes) : prop.votes[i].voter = c.sender
         THEN TxErr(c.s, c.d)
    ELSE IF weight = 0 THEN TxErr(c.s, c.d)
    ELSE
    LET voted == [prop EXCEPT
                    !.for_votes = IF p.support = "For" THEN @ + weight ELSE @,
                    !.against_votes = IF p.support = "Against" THEN @ + weight ELSE @,
                    !.abstain_votes = IF p.support = "Abstain" THEN @ + weight ELSE @,
                    !.votes = Append(@, [voter |-> c.sender, choice |-> p.support,
                                         weight |-> weight])]
        chain == [c.s EXCEPT !.proposals = MapPut(@, p.proposal_id,
                     finalize_proposal(voted, c.s.governance_params, c.now))]
    IN settle(c.ctx, c.s, c.d, chain, c.sender_account, c.gas_fee, c.gas_fee, c.gas_used)

apply_GovernanceBridgeApprove(c) ==
    LET p == c.tx.payload IN
    IF p.proposal_id \notin DOMAIN c.s.proposals THEN TxErr(c.s, c.d)
    ELSE
    LET prop == c.s.proposals[p.proposal_id] IN
    IF prop.status \notin {"Queued", "Succeeded"} THEN TxErr(c.s, c.d)
    ELSE IF ~ensure_multisig_eligibility(c.s.governance_params, c.sender)
         THEN TxErr(c.s, c.d)
    ELSE IF Contains(prop.approvals, c.sender) THEN TxErr(c.s, c.d)
    ELSE
    LET chain == [c.s EXCEPT !.proposals = MapPut(@, p.proposal_id,
                     [prop EXCEPT !.approvals = Append(@, c.sender)])]
    IN settle(c.ctx, c.s, c.d, chain, c.sender_account, c.gas_fee, c.gas_fee, c.gas_used)

apply_GovernanceExecute(c) ==
    LET p == c.tx.payload IN
    IF p.proposal_id \notin DOMAIN c.s.proposals THEN TxErr(c.s, c.d)
    ELSE
    LET prop == finalize_proposal(c.s.proposals[p.proposal_id],
                                  c.s.governance_params, c.now)
    IN
    IF prop.status # "Queued" THEN TxErr(c.s, c.d)
    ELSE IF prop.eta = None THEN TxErr(c.s, c.d)
    ELSE IF c.now < prop.eta[1] THEN TxErr(c.s, c.d)
    ELSE IF ~ensure_multisig_threshold_met(c.s.governance_params, prop.approvals)
         THEN TxErr(c.s, c.d)
    ELSE
    LET chain == [c.s EXCEPT !.proposals = MapPut(@, p.proposal_id,
                     [prop EXCEPT !.status = "Executed"])]
    IN settle(c.ctx, c.s, c.d, chain, c.sender_account, c.gas_fee, c.gas_fee, c.gas_used)

apply_SystemUpgrade(c) ==
    LET p == c.tx.payload
        body == <<"upgrade", <<p.module, p.version>>>>
        proposal ==
            [id |-> c.uuid, payload |-> body, kind |-> "upgrade",
             status |-> "Queued", proposer |-> c.sender,
             start |-> c.now, end |-> c.now,
             eta |-> Some(c.now + c.s.governance_params.timelock_ms),
             snapshot_total_stake |-> 0,
             for_votes |-> 0, against_votes |-> 0, abstain_votes |-> 0,
             votes |-> <<>>, execution |-> body,
             voter_weights |-> EmptyMap, approvals |-> <<>>]
        chain == [c.s EXCEPT !.proposals = MapPut(@, c.uuid, proposal)]
    IN settle(c.ctx, c.s, c.d, chain, c.sender_account, c.gas_fee, c.gas_fee, c.gas_used)

----------------------------------------------------------------------------
(* protocol/runtime/domains: the domain runtime *)

DomainState_default ==
    [kv |-> EmptyMap, inbox |-> <<>>, outbox |-> <<>>,
     next_out_nonce |-> 0, next_in_nonce |-> 0]

\* the multiset of the elements of a sequence
BagOfSeq(seq) ==
    [x \in {seq[i] : i \in 1..Len(seq)} |->
        Cardinality({i \in 1..Len(seq) : seq[i] = x})]

\* DomainState::root: the hash of the sorted leaves
DomainState_root(ds) ==
    <<"droot", <<ds.kv, BagOfSeq(ds.inbox), BagOfSeq(ds.outbox),
                 ds.next_out_nonce, ds.next_in_nonce>>>>

DomainRuntime_new == [adapters |-> EmptyMap, state |-> EmptyMap, traces |-> EmptyMap]

\* DomainStateStore::load
domain_load(d, id) == MapGetOr(d.state, id, DomainState_default)

\* DomainRuntime::register: Ok only for the kinds that have an adapter
domain_register(d, entry) ==
    IF entry.kind = "EvmSharedSecurity"
    THEN [ok |-> TRUE, d |-> [d EXCEPT !.adapters = MapPut(@, entry.domain_id, "Evm")]]
    ELSE IF entry.kind = "Wasm"
    THEN [ok |-> TRUE, d |-> [d EXCEPT !.adapters = MapPut(@, entry.domain_id, "Wasm")]]
    ELSE [ok |-> FALSE, d |-> d]

\* EvmAdapter::execute: the receipt, or an error for a payload that is no EvmCall
evm_execute(call, state, block_height) ==
    IF call.payload = "not-an-evm-call" THEN [ok |-> FALSE]
    ELSE [ok |-> TRUE,
          gas_used |-> IF call.max_gas = None THEN 5000000 ELSE call.max_gas[1],
          state |-> [state EXCEPT !.kv =
                        MapPut(MapPut(@, "evm:last_root",
                                      <<"keccak", <<call.payload, block_height>>>>),
                               "evm:last_from", <<"zero", "">>)]]

\* DomainRuntime::execute over an EVM adapter
domain_execute(d, call, block_height) ==
    IF call.domain_id \notin DOMAIN d.adapters THEN [ok |-> FALSE, d |-> d]
    ELSE
    LET r == evm_execute(call, domain_load(d, call.domain_id), block_height) IN
    IF ~r.ok THEN [ok |-> FALSE, d |-> d]
    ELSE [ok |-> TRUE, gas_used |-> r.gas_used,
          state_root |-> DomainState_root(r.state),
          d |-> [d EXCEPT
                   !.state = MapPut(@, call.domain_id, r.state),
                   !.traces = MapPut(@, call.domain_id,
                                Append(MapGetOr(d.traces, call.domain_id, <<>>),
                                       DomainState_root(r.state)))]]

\* DomainRuntime::submit_fraud_proof: TRUE for Ok
submit_fraud_proof(d, proof) ==
    /\ proof.domain_id \in DOMAIN d.traces
    /\ d.traces[proof.domain_id] # <<>>
    /\ LET t == d.traces[proof.domain_id] IN t[Len(t)] # proof.claimed_root

\* DomainRuntime::push_outbox
push_outbox(d, msg) ==
    LET st == domain_load(d, msg.from) IN
    [d EXCEPT !.state = MapPut(@, msg.from,
                 [st EXCEPT !.outbox = Append(@, msg), !.next_out_nonce = @ + 1])]

\* DomainRuntime::relay_message
relay_message(d, msg) ==
    LET dest == domain_load(d, msg.to) IN
    [d EXCEPT !.state = MapPut(@, msg.to,
                 [dest EXCEPT !.inbox = Append(@, msg), !.next_in_nonce = @ + 1])]

\* TRUE for Ok
validate_domain_risk(params) ==
    /\ params.max_loss_bps # None => params.max_loss_bps[1] <= 10000
    /\ params.risk_cap # None => params.risk_cap[1] # 0

DomainRoot(domain_id, state_root, epoch, meta) ==
    [domain_id |-> domain_id, state_root |-> state_root, da_root |-> ZeroHash,
     last_verified_epoch |-> epoch, proof_meta |-> meta]

apply_DomainExecute(c) ==
    LET call == c.tx.payload.call IN
    IF call.domain_id \notin DOMAIN c.s.domains THEN TxErr(c.s, c.d)
    ELSE
    LET reg == IF call.domain_id \in DOMAIN c.d.adapters THEN [ok |-> TRUE, d |-> c.d]
               ELSE domain_register(c.d, c.s.domains[call.domain_id])
    IN
    IF ~reg.ok THEN TxErr(c.s, c.d)
    ELSE IF ULt(c.sender_account.balance_x, c.gas_fee) THEN TxErr(c.s, reg.d)
    ELSE
    LET receipt == domain_execute(reg.d, call, c.height) IN
    IF ~receipt.ok THEN TxErr(c.s, reg.d)
    ELSE
    LET chain == [c.s EXCEPT !.domain_roots = MapPut(@, call.domain_id,
                     DomainRoot(call.domain_id, receipt.state_root, c.height,
                                <<"trace", c.height>>))]
    IN settle(c.ctx, c.s, receipt.d, chain, c.sender_account, c.gas_fee, c.gas_fee,
              receipt.gas_used)

apply_CrossDomainSend(c) ==
    LET p == c.tx.payload IN
    IF ULt(c.sender_account.balance_x, c.gas_fee + p.fee) THEN TxErr(c.s, c.d)
    ELSE IF p.from_domain \notin DOMAIN c.s.domains THEN TxErr(c.s, c.d)
    ELSE IF p.to_domain \notin DOMAIN c.s.domains THEN TxErr(c.s, c.d)
    ELSE
    LET msg == [from |-> p.from_domain, to |-> p.to_domain,
                nonce |-> domain_load(c.d, p.from_domain).next_out_nonce,
                fee |-> p.fee, payload |-> p.payload]
    IN settle(c.ctx, c.s, push_outbox(c.d, msg), c.s, c.sender_account,
              c.gas_fee + p.fee, c.gas_fee, c.gas_used)

apply_CrossDomainRelay(c) ==
    settle(c.ctx, c.s, relay_message(c.d, c.tx.payload.message), c.s,
           c.sender_account, c.gas_fee, c.gas_fee, c.gas_used)

apply_FraudChallenge(c) ==
    LET p == c.tx.payload IN
    IF ~submit_fraud_proof(c.d, p) THEN TxErr(c.s, c.d)
    ELSE
    LET chain == [c.s EXCEPT !.domain_roots = MapPut(@, p.domain_id,
                     DomainRoot(p.domain_id, p.claimed_root, c.height,
                                <<"fraud_proof", p.witness>>))]
    IN settle(c.ctx, c.s, c.d, chain, c.sender_account, c.gas_fee, c.gas_fee, c.gas_used)

domain_kind(params) ==
    IF params.kind = None THEN "Custom"
    ELSE CASE params.kind[1] \in {"evm", "evm_shared_security"} -> "EvmSharedSecurity"
           [] params.kind[1] = "wasm" -> "Wasm"
           [] params.kind[1] = "privacy" -> "Privacy"
           [] params.kind[1] = "payment" -> "Payment"
           [] OTHER -> "Custom"

apply_DomainCreate(c) ==
    LET p == c.tx.payload IN
    IF ~validate_domain_risk(p.params) THEN TxErr(c.s, c.d)
    ELSE
    LET entry == [domain_id |-> p.domain_id, kind |-> domain_kind(p.params),
                  security_model |-> "SharedSecurity", sequencer_binding |-> None,
                  bridge_contracts |-> <<>>, risk_params |-> p.params]
        chain == [c.s EXCEPT !.domains = MapPut(@, p.domain_id, entry)]
    IN settle(c.ctx, c.s, domain_register(c.d, entry).d, chain, c.sender_account,
              c.gas_fee, c.gas_fee, c.gas_used)

apply_DomainConfigUpdate(c) ==
    LET p == c.tx.payload IN
    IF ~validate_domain_risk(p.params) THEN TxErr(c.s, c.d)
    ELSE
    LET chain == IF p.domain_id \in DOMAIN c.s.domains
                 THEN [c.s EXCEPT !.domains = MapPut(@, p.domain_id,
                          [c.s.domains[p.domain_id] EXCEPT !.risk_params = p.params])]
                 ELSE c.s
    IN settle(c.ctx, c.s, c.d, chain, c.sender_account, c.gas_fee, c.gas_fee, c.gas_used)

apply_RollupBatchCommit(c) ==
    LET p == c.tx.payload
        chain == [c.s EXCEPT
                    !.da_commitments = Append(@, [block_height |-> 0,
                                                  da_root |-> ZeroHash,
                                                  blob_ids |-> <<p.blob_id>>]),
                    !.domain_roots = MapPut(@, p.domain_id,
                        DomainRoot(p.domain_id, ZeroHash, 0, <<"blob", p.blob_id>>))]
    IN settle(c.ctx, c.s, c.d, chain, c.sender_account, c.gas_fee, c.gas_fee, c.gas_used)

----------------------------------------------------------------------------
(* protocol/runtime: apply_tx and apply_block *)

apply_payload(c) ==
    CASE c.tx.payload.kind = "Transfer" -> apply_Transfer(c)
      [] c.tx.payload.kind = "Stake" -> apply_Stake(c)
      [] c.tx.payload.kind = "Unstake" -> apply_Unstake(c)
      [] c.tx.payload.kind = "Delegate" -> apply_Delegate(c)
      [] c.tx.payload.kind = "Undelegate" -> apply_Undelegate(c)
      [] c.tx.payload.kind = "DomainExecute" -> apply_DomainExecute(c)
      [] c.tx.payload.kind = "CrossDomainSend" -> apply_CrossDomainSend(c)
      [] c.tx.payload.kind = "CrossDomainRelay" -> apply_CrossDomainRelay(c)
      [] c.tx.payload.kind = "FraudChallenge" -> apply_FraudChallenge(c)
      [] c.tx.payload.kind = "DomainCreate" -> apply_DomainCreate(c)
      [] c.tx.payload.kind = "DomainConfigUpdate" -> apply_DomainConfigUpdate(c)
      [] c.tx.payload.kind = "RollupBatchCommit" -> apply_RollupBatchCommit(c)
      [] c.tx.payload.kind = "RollupBridgeDeposit" -> apply_RollupBridgeDeposit(c)
      [] c.tx.payload.kind = "RollupBridgeWithdraw" -> apply_RollupBridgeWithdraw(c)
      [] c.tx.payload.kind = "GovernanceProposal" -> apply_GovernanceProposal(c)
      [] c.tx.payload.kind = "GovernanceVote" -> apply_GovernanceVote(c)
      [] c.tx.payload.kind = "GovernanceBridgeApprove" -> apply_GovernanceBridgeApprove(c)
      [] c.tx.payload.kind = "GovernanceExecute" -> apply_GovernanceExecute(c)
      [] c.tx.payload.kind = "Slash" -> apply_Slash(c)
      [] c.tx.payload.kind = "PrivacyDeposit" -> apply_PrivacyDeposit(c)
      [] c.tx.payload.kind = "PrivacyWithdraw" -> apply_PrivacyWithdraw(c)
      [] c.tx.payload.kind = "SystemUpgrade" -> apply_SystemUpgrade(c)

\* apply_tx: uuid is what Uuid::new_v4() returns in this call and now what
\* now_millis() returns
apply_tx(ctx, s, d, tx, current_height, uuid, now) ==
    LET sender == verify_tx_signature(tx) IN
    IF sender = None THEN TxErr(s, d)
    ELSE IF tx.chain_id # ctx.chain_id THEN TxErr(s, d)
    ELSE
    LET sender_account == get_account(s, sender[1]) IN
    IF sender_account.nonce # tx.nonce THEN TxErr(s, d)
    ELSE
    LET gas_used == gas_cost(tx.payload)
        gas_fee == gas_used * effective_gas_price(tx, ctx.base_fee)
    IN apply_payload([ctx |-> ctx, s |-> s, d |-> d, tx |-> tx, sender |-> sender[1],
                      sender_account |-> sender_account, gas_fee |-> gas_fee,
                      gas_used |-> gas_used, height |-> current_height,
                      uuid |-> uuid, now |-> now])

\* the loop of process_unbondings over the drained entries: the store after
\* the credits and the entries that remain, or an error at the first overflow
RECURSIVE unbond_entries(_, _, _, _)
unbond_entries(s, entries, remaining, current_height) ==
    IF entries = <<>> THEN [ok |-> TRUE, store |-> s, remaining |-> remaining]
    ELSE
    LET entry == Head(entries) IN
    IF entry.release_height > current_height
    THEN unbond_entries(s, Tail(entries), Append(remaining, entry), current_height)
    ELSE
    LET account == get_account(s, entry.owner)
        credited == checked_add(account.balance_x, entry.amount)
    IN IF credited = None THEN [ok |-> FALSE, store |-> s, remaining |-> remaining]
       ELSE unbond_entries(put_account(s, [account EXCEPT !.balance_x = credited[1]]),
                           Tail(entries), remaining, current_height)

process_unbondings(s, current_height) ==
    IF s.pending_unbonds = <<>> THEN [ok |-> TRUE, store |-> s]
    ELSE
    LET r == unbond_entries(s, s.pending_unbonds, <<>>, current_height) IN
    IF ~r.ok THEN [ok |-> FALSE, store |-> r.store]
    ELSE [ok |-> TRUE, store |-> [r.store EXCEPT !.pending_unbonds = r.remaining]]

total_bonded_stake(chain) ==
    SumOver([id \in DOMAIN chain.validators |-> chain.validators[id].stake],
            DOMAIN chain.validators)

\* blocks_per_year, with the block time in whole seconds (block_time_ms = 1000 * s)
SecondsPerYear == 31536000
blocks_per_year(block_time_s) == Max(SecondsPerYear \div Max(block_time_s, 1), 1)

current_inflation_bps(chain, params) ==
    LET supply == Max(chain.total_supply, 1)
        staked == total_bonded_stake(chain)
    IN IF staked = 0 THEN params.max_inflation_bps
       ELSE IF (Min(staked, supply) * 10000) \div supply >= params.target_stake_bps
            THEN params.base_inflation_bps
       ELSE params.max_inflation_bps

delegated_total(chain, validator_id) ==
    SumSeq([i \in 1..Len(chain.delegations) |->
               IF chain.delegations[i].validator_id = validator_id
               THEN chain.delegations[i].stake ELSE 0])

\* what apply_inflation_rewards pays to an address out of the share of one
\* validator: the validator reward to the owner, and to each delegation row
\* its part of the delegator pool
validator_payout(chain, id, address, distributable, total_stake) ==
    LET v == chain.validators[id]
        share == IF v.stake = 0 THEN 0 ELSE (distributable * v.stake) \div total_stake
        delegated == delegated_total(chain, id)
        self_stake == Max(v.stake - delegated, 0)
        delegated_reward == IF v.stake > 0 THEN (share * delegated) \div v.stake ELSE 0
        commission == (delegated_reward * v.commission_rate) \div 100
        delegator_pool == Max(delegated_reward - commission, 0)
        self_reward == IF v.stake > 0 THEN (share * self_stake) \div v.stake ELSE share
        to_owner == IF v.owner = address THEN self_reward + commission ELSE 0
        to_rows == IF delegated > 0 /\ delegator_pool > 0
                   THEN SumSeq([i \in 1..Len(chain.delegations) |->
                          IF /\ chain.delegations[i].validator_id = id
                             /\ chain.delegations[i].delegator = address
                          THEN (delegator_pool * chain.delegations[i].stake) \div delegated
                          ELSE 0])
                   ELSE 0
    IN IF share = 0 THEN 0 ELSE to_owner + to_rows

\* credit_payouts: every payout is added to its account; an error if one of
\* the sums overflows
RECURSIVE credit_payouts(_, _, _)
credit_payouts(s, payouts, addresses) ==
    IF addresses = {} THEN [ok |-> TRUE, store |-> s]
    ELSE
    LET address == CHOOSE a \in addresses : TRUE
        account == get_account(s, address)
        credited == checked_add(account.balance_x, payouts[address])
    IN IF payouts[address] = 0 THEN credit_payouts(s, payouts, addresses \ {address})
       ELSE IF credited = None THEN [ok |-> FALSE, store |-> s]
       ELSE credit_payouts(put_account(s, [account EXCEPT !.balance_x = credited[1]]),
                           payouts, addresses \ {address})

apply_inflation_rewards(ctx, s, block) ==
    LET total_stake == total_bonded_stake(s)
        inflation_bps == current_inflation_bps(s, ctx.reward_params)
        mint == ((s.total_supply * inflation_bps) \div 10000)
                    \div blocks_per_year(ctx.block_time_s)
        treasury == (mint * ctx.reward_params.treasury_pct) \div 100
        after_treasury == mint - treasury
        proposer_bonus == (after_treasury * ctx.reward_params.proposer_bonus_pct) \div 100
        distributable == after_treasury - proposer_bonus
        addresses == {block.header.proposer_id}
                     \cup {s.validators[id].owner : id \in DOMAIN s.validators}
                     \cup {s.delegations[i].delegator : i \in 1..Len(s.delegations)}
        payouts == [a \in addresses |->
                      (IF a = block.header.proposer_id THEN proposer_bonus ELSE 0)
                      + (IF distributable > 0
                         THEN SumOver([id \in DOMAIN s.validators |->
                                 validator_payout(s, id, a, distributable, total_stake)],
                                 DOMAIN s.validators)
                         ELSE 0)]
    IN
    IF total_stake = 0 THEN [ok |-> TRUE, store |-> s, minted |-> 0]
    ELSE IF mint = 0 THEN [ok |-> TRUE, store |-> s, minted |-> 0]
    ELSE
    LET paid == credit_payouts(s, payouts, addresses) IN
    IF ~paid.ok THEN [ok |-> FALSE, store |-> paid.store, minted |-> 0]
    ELSE [ok |-> TRUE, minted |-> mint,
          store |-> [paid.store EXCEPT !.fee_pools.treasury = @ + treasury,
                                       !.total_supply = @ + mint,
                                       !.last_reward_height = block.header.height]]

\* bincode of a proposal: its voter_weights map is written in the iteration
\* order of the HashMap, here the sequence of owners `order`
serialize_proposal(p, order) ==
    [p EXCEPT !.voter_weights = [i \in 1..Len(order) |-> <<order[i], p.voter_weights[order[i]]>>]]

\* ChainState::state_root: the hash of the sorted leaf hashes, one leaf per
\* entity; `orders` gives, per proposal, the iteration order of its weights
state_root(chain, orders) ==
    <<"root",
      [accounts |-> {chain.accounts[a] : a \in DOMAIN chain.accounts},
       validators |-> {chain.validators[id] : id \in DOMAIN chain.validators},
       delegations |-> BagOfSeq(chain.delegations),
       domains |-> {chain.domains[id] : id \in DOMAIN chain.domains},
       da_commitments |-> BagOfSeq(chain.da_commitments),
       domain_roots |-> {chain.domain_roots[id] : id \in DOMAIN chain.domain_roots},
       proposals |-> {serialize_proposal(chain.proposals[id], orders[id]) :
                         id \in DOMAIN chain.proposals},
       fee_pools |-> chain.fee_pools,
       privacy_pools |-> {chain.privacy_pools[n] : n \in DOMAIN chain.privacy_pools},
       governance_params |-> chain.governance_params,
       total_supply |-> chain.total_supply,
       last_reward_height |-> chain.last_reward_height,
       pending_unbonds |-> BagOfSeq(chain.pending_unbonds)]>>

\* the orders in which the elements of a finite set can be iterated
RECURSIVE Orderings(_)
Orderings(S) ==
    IF S = {} THEN {<<>>}
    ELSE UNION {{<<x>> \o rest : rest \in Orderings(S \ {x})} : x \in S}

\* the iteration orders the weight maps of the proposals of a chain state can have
IterationOrders(chain) ==
    LET ids == DOMAIN chain.proposals
        of(id) == Orderings(DOMAIN chain.proposals[id].voter_weights)
    IN {f \in [ids -> UNION {of(id) : id \in ids}] : \A id \in ids : f[id] \in of(id)}

\* the transaction loop of apply_block from transaction i on: the store and
\* domain runtime it leaves, the gas used, and one step per transaction tried
RECURSIVE apply_txs(_, _, _, _, _, _, _, _, _)
\* the loop after transaction i returned r
apply_txs_after(ctx, s, block, i, uuids, now, gas_used, steps, r) ==
    LET step == [tx |-> block.transactions[i], ok |-> r.ok, pre |-> s, post |-> r.store]
        gas == gas_used + r.gas_used
    IN
    IF ~r.ok \/ gas > ctx.max_gas_per_block
    THEN [ok |-> FALSE, store |-> r.store, domains |-> r.domains, gas_used |-> gas,
          steps |-> Append(steps, step)]
    ELSE apply_txs(ctx, r.store, r.domains, block, i + 1, uuids, now, gas,
                   Append(steps, step))

apply_txs(ctx, s, d, block, i, uuids, now, gas_used, steps) ==
    IF i > Len(block.transactions)
    THEN [ok |-> TRUE, store |-> s, domains |-> d, gas_used |-> gas_used, steps |-> steps]
    ELSE Bind(apply_tx(ctx, s, d, block.transactions[i], block.header.height,
                       uuids[i], now),
              LAMBDA r : apply_txs_after(ctx, s, block, i, uuids, now, gas_used, steps, r))

\* apply_block returning Err at a stage, with the store it leaves
block_failed(txs, store, after_unbond, stage) ==
    [ok |-> FALSE, store |-> store, domains |-> txs.domains, steps |-> txs.steps,
     stage |-> stage, after_txs |-> txs.store, after_unbond |-> after_unbond,
     state_root |-> ZeroHash, gas_used |-> txs.gas_used, minted |-> 0]

\* apply_block after apply_inflation_rewards returned
block_rewarded(txs, unbonded, rewarded) ==
    IF ~rewarded.ok THEN block_failed(txs, rewarded.store, unbonded.store, "rewards")
    ELSE [ok |-> TRUE, store |-> rewarded.store, domains |-> txs.domains,
          steps |-> txs.steps, stage |-> "done", after_txs |-> txs.store,
          after_unbond |-> unbonded.store, state_root |-> ZeroHash,
          gas_used |-> txs.gas_used, minted |-> rewarded.minted]

\* apply_block after process_unbondings returned
block_unbonded(ctx, block, txs, unbonded) ==
    IF ~unbonded.ok THEN block_failed(txs, unbonded.store, unbonded.store, "unbond")
    ELSE Bind(apply_inflation_rewards(ctx, unbonded.store, block),
              LAMBDA rewarded : block_rewarded(txs, unbonded, rewarded))

\* apply_block after the transaction loop
block_executed(ctx, block, txs) ==
    IF ~txs.ok THEN block_failed(txs, txs.store, txs.store, "txs")
    ELSE Bind(process_unbondings(txs.store, block.header.height),
              LAMBDA unbonded : block_unbonded(ctx, block, txs, unbonded))

\* apply_block up to the commit: the result, the store and the domain runtime
\* after the call, and the stages the call went through
apply_block_stages(ctx, s, d, block, uuids, now) ==
    Bind(apply_txs(ctx, s, d, block, 1, uuids, now, 0, <<>>),
         LAMBDA txs : block_executed(ctx, block, txs))

\* the commit of apply_block: the state root of the store
commit(r, orders) ==
    IF r.ok THEN [r EXCEPT !.state_root = state_root(r.store, orders)] ELSE r

\* apply_block: Ok with the state root the store commits to, or Err
apply_block(ctx, s, d, block, uuids, now, orders) ==
    Bind(apply_block_stages(ctx, s, d, block, uuids, now), LAMBDA r : commit(r, orders))

----------------------------------------------------------------------------
(* protocol/runtime: genesis *)

FeeSplit_devnet ==
    [l1_gas_burn_pct |-> 30, l1_gas_validators_pct |-> 70, da_validators_pct |-> 70,
     da_nodes_pct |-> 20, da_treasury_pct |-> 10, l2_sequencer_pct |-> 50,
     l2_da_costs_pct |-> 30, l2_l1_rent_pct |-> 20]

RewardParams_default ==
    [base_inflation_bps |-> 500, max_inflation_bps |-> 1500, target_stake_bps |-> 6700,
     treasury_pct |-> 10, proposer_bonus_pct |-> 5]

\* from_genesis: the execution context and the store it is built over
from_genesis(genesis) ==
    LET accounts == [a \in {genesis.initial_accounts[i][1] :
                              i \in 1..Len(genesis.initial_accounts)} |->
                        LET i == CHOOSE j \in 1..Len(genesis.initial_accounts) :
                                    /\ genesis.initial_accounts[j][1] = a
                                    /\ \A k \in (j + 1)..Len(genesis.initial_accounts) :
                                          genesis.initial_accounts[k][1] # a
                        IN Account(a, 0, genesis.initial_accounts[i][2])]
        gv == genesis.initial_validators
        validators == [id \in {validator_id_from_pubkey(gv[i].pubkey) : i \in 1..Len(gv)} |->
                        LET i == CHOOSE j \in 1..Len(gv) :
                                    /\ validator_id_from_pubkey(gv[j].pubkey) = id
                                    /\ \A k \in (j + 1)..Len(gv) :
                                          validator_id_from_pubkey(gv[k].pubkey) # id
                        IN [owner |-> address_from_pubkey(gv[i].pubkey), id |-> id,
                            pubkey |-> gv[i].pubkey, stake |-> gv[i].stake,
                            status |-> "Active",
                            commission_rate |-> gv[i].commission_rate]]
        computed_supply ==
            IF genesis.initial_total_supply # 0 THEN genesis.initial_total_supply
            ELSE SumOver([a \in DOMAIN accounts |-> accounts[a].balance_x], DOMAIN accounts)
                 + SumOver([id \in DOMAIN validators |-> validators[id].stake],
                           DOMAIN validators)
    IN [ctx |-> [fee_split |-> genesis.fee_split, chain_id |-> genesis.chain_id,
                 base_fee |-> genesis.base_fee,
                 max_gas_per_block |-> genesis.max_gas_per_block,
                 block_time_s |-> genesis.block_time_s,
                 reward_params |-> genesis.reward_params,
                 unbonding_delay_blocks |-> genesis.unbonding_delay_blocks,
                 slash_penalty_bps |-> genesis.slash_penalty_bps],
        store |-> [ChainState_default EXCEPT !.accounts = accounts,
                                             !.validators = validators,
                                             !.total_supply = computed_supply]]

----------------------------------------------------------------------------
(* The runtime driven by blocks.  Each workload is a genesis and the calls  *)
(* its clients make.                                                        *)

K1 == Key("k1")
K2 == Key("k2")
A1 == address_from_pubkey(K1)
A2 == address_from_pubkey(K2)
A3 == address_from_pubkey(Key("k3"))

Workloads == {"bank", "transfer", "staking", "unbonding", "privacy", "domains",
              "governance"}

\* the genesis of a workload: the devnet defaults of bootstrap_state, with
\* funded accounts, validators, and for the staking workload a short
\* unbonding delay and one block a year so that a block mints a whole unit
UnbondingDelay == 2
GenesisOf(w) ==
    [chain_id |-> "kova-devnet",
     initial_validators |->
        CASE w = "governance" ->
                <<[pubkey |-> K1, stake |-> 3, commission_rate |-> 0],
                  [pubkey |-> K2, stake |-> 1, commission_rate |-> 0]>>
          [] w = "staking" -> <<[pubkey |-> K1, stake |-> 1, commission_rate |-> 10]>>
          [] w \in {"unbonding", "node"} ->
                <<[pubkey |-> K1, stake |-> 1, commission_rate |-> 0],
                  [pubkey |-> K2, stake |-> 1, commission_rate |-> 0]>>
          [] w = "cluster" ->
                <<[pubkey |-> K1, stake |-> 1000, commission_rate |-> 0],
                  [pubkey |-> K2, stake |-> 1000, commission_rate |-> 0]>>
          [] OTHER -> <<>>,
     initial_accounts |->
        IF w = "cluster" THEN <<<<address_from_pubkey(Key("user")), 1000000>>>>
        ELSE IF w = "transfer" THEN <<<<A1, 1000000>>>>
        ELSE <<<<A1, 200005>>, <<A2, 5>>>>,
     block_time_s |-> IF w = "staking" THEN SecondsPerYear ELSE 1,
     max_gas_per_block |-> 30000000,
     base_fee |-> 1,
     fee_split |-> FeeSplit_devnet,
     initial_total_supply |-> 0,
     reward_params |-> RewardParams_default,
     unbonding_delay_blocks |->
        IF w \in {"staking", "unbonding"} THEN UnbondingDelay ELSE 10,
     slash_penalty_bps |-> 500]

\* a transaction signed by the key pair that sends it
MakeTx(key, nonce, gas_price, payload) ==
    LET unsigned == [chain_id |-> "kova-devnet", nonce |-> nonce, max_fee |-> None,
                     max_priority_fee |-> None, gas_price |-> gas_price,
                     payload |-> payload, public_key |-> key,
                     signature |-> BadSignature]
    IN [unsigned EXCEPT !.signature = sign_bytes(key, tx_signing_bytes(unsigned))]

Transfer(to, amount) == [kind |-> "Transfer", to |-> to, amount |-> amount]
Stake(amount) == [kind |-> "Stake", amount |-> amount]
Unstake(amount) == [kind |-> "Unstake", amount |-> amount]
Delegate(validator, amount) ==
    [kind |-> "Delegate", validator |-> validator, amount |-> amount]
Undelegate(validator, amount) ==
    [kind |-> "Undelegate", validator |-> validator, amount |-> amount]
Slash(validator, penalty_bps) ==
    [kind |-> "Slash", validator |-> validator, penalty_bps |-> penalty_bps]
RollupBridgeDeposit(domain_id, amount) ==
    [kind |-> "RollupBridgeDeposit", domain_id |-> domain_id, amount |-> amount]
RollupBridgeWithdraw(domain_id, amount) ==
    [kind |-> "RollupBridgeWithdraw", domain_id |-> domain_id, amount |-> amount]
PrivacyDeposit(commitment, amount) ==
    [kind |-> "PrivacyDeposit", commitment |-> commitment, amount |-> amount]
PrivacyWithdraw(nullifier, recipient, amount, merkle_root, commitment, proof) ==
    [kind |-> "PrivacyWithdraw", nullifier |-> nullifier, recipient |-> recipient,
     amount |-> amount, merkle_root |-> merkle_root, commitment |-> commitment,
     proof |-> proof]
GovernanceProposal(payload) ==
    [kind |-> "GovernanceProposal", payload |-> payload, prop_kind |-> None]
GovernanceVote(proposal_id, support) ==
    [kind |-> "GovernanceVote", proposal_id |-> proposal_id, support |-> support]
GovernanceBridgeApprove(proposal_id) ==
    [kind |-> "GovernanceBridgeApprove", proposal_id |-> proposal_id]
GovernanceExecute(proposal_id) ==
    [kind |-> "GovernanceExecute", proposal_id |-> proposal_id]
SystemUpgrade(module, version) ==
    [kind |-> "SystemUpgrade", module |-> module, version |-> version]
DomainCreate(domain_id, params) ==
    [kind |-> "DomainCreate", domain_id |-> domain_id, params |-> params]
DomainConfigUpdate(domain_id, params) ==
    [kind |-> "DomainConfigUpdate", domain_id |-> domain_id, params |-> params]
DomainExecute(domain_id, payload, max_gas) ==
    [kind |-> "DomainExecute",
     call |-> [domain_id |-> domain_id, payload |-> payload, max_gas |-> max_gas]]
CrossDomainSend(from_domain, to_domain, payload, fee) ==
    [kind |-> "CrossDomainSend", from_domain |-> from_domain, to_domain |-> to_domain,
     payload |-> payload, fee |-> fee]
CrossDomainRelay(message) == [kind |-> "CrossDomainRelay", message |-> message]
FraudChallenge(domain_id, claimed_root) ==
    [kind |-> "FraudChallenge", domain_id |-> domain_id, claimed_root |-> claimed_root,
     witness |-> "witness"]
RollupBatchCommit(domain_id, blob_id) ==
    [kind |-> "RollupBatchCommit", domain_id |-> domain_id, blob_id |-> blob_id]

D1 == <<"uuid", "d1">>
D2 == <<"uuid", "d2">>
Cm1 == <<"cm", 1>>
Cm2 == <<"cm", 2>>
Nf1 == <<"nf", 1>>
Nf2 == <<"nf", 2>>
Free == Some(0)

\* the amount that fills the account of a key up to u128::MAX
ToMax(s, key) == (0 - 1) - get_account(s, address_from_pubkey(key)).balance_x

DomainParams(kind, max_loss_bps) ==
    [kind |-> Some(kind), max_loss_bps |-> Some(max_loss_bps), risk_cap |-> None]

\* the calls of the clients of a workload, as <<key, gas price, payload>>,
\* given the chain state s they see
BankCalls(s) ==
    {<<K1, None, Transfer(A2, 1)>>, <<K1, None, Transfer(A3, 2)>>,
     <<K2, Free, Transfer(A1, 1)>>, <<K2, None, Transfer(A1, 1)>>,
     <<K1, None, RollupBridgeDeposit(D1, 1)>>,
     <<K1, None, RollupBridgeWithdraw(D1, 1)>>,
     <<K2, Free, RollupBridgeWithdraw(D1, 1)>>,
     <<K2, Free, RollupBridgeWithdraw(D1, ToMax(s, K2))>>}

\* transfers around the balance of K1, which the genesis funds with
\* 1,000,000: to others and to itself, at the base fee and at twice that,
\* of all it can pay and of one more
TransferCalls ==
    {<<K1, None, Transfer(A1, 10)>>, <<K1, Some(2), Transfer(A3, 1)>>,
     <<K1, None, Transfer(A2, 979000)>>, <<K1, None, Transfer(A2, 979001)>>,
     <<K2, None, Transfer(A1, 1)>>}

StakingCalls ==
    {<<K1, Free, Stake(1)>>, <<K1, None, Unstake(1)>>, <<K1, Free, Unstake(2)>>,
     <<K2, Free, Delegate(A1, 1)>>, <<K2, Free, Delegate(A1, 2)>>,
     <<K2, Free, Undelegate(A1, 1)>>, <<K2, Free, Undelegate(A1, 2)>>,
     <<K2, Free, Stake(1)>>, <<K2, Free, Slash(A1, 5000)>>}

UnbondingCalls(s) ==
    {<<K1, Free, Unstake(1)>>, <<K2, Free, Unstake(1)>>, <<K2, None, Unstake(1)>>,
     <<K1, Free, RollupBridgeWithdraw(D1, ToMax(s, K1))>>}

PrivacyCalls(s) ==
    LET root == ensure_privacy_pool(s).privacy_pools[Shielded].merkle_root
        input(nf, to, amount, cm) ==
            [nullifier |-> nf, merkle_root |-> root, recipient |-> to,
             amount |-> amount, commitment |-> cm]
        withdraw(nf, to, amount, cm) ==
            PrivacyWithdraw(nf, to, amount, root, cm,
                            stub_withdraw_proof(input(nf, to, amount, cm)))
    IN {<<K1, None, PrivacyDeposit(Cm1, 2)>>, <<K1, Free, PrivacyDeposit(Cm2, 1)>>,
        <<K2, Free, PrivacyDeposit(Cm1, 0)>>,
        <<K1, None, withdraw(Nf1, A3, 1, Cm1)>>,
        <<K1, Free, withdraw(Nf1, A3, 2, Cm1)>>,
        <<K1, Free, withdraw(Nf2, A1, 1, Cm1)>>,
        <<K2, None, withdraw(Nf1, A3, 1, Cm1)>>,
        <<K2, Free, withdraw(Nf2, A2, 1, Cm2)>>,
        <<K2, Free, withdraw(Nf1, A2, 1, Cm1)>>,
        <<K1, Free, PrivacyWithdraw(Nf1, A3, 1, ZeroHash, Cm1,
                                    stub_withdraw_proof(input(Nf1, A3, 1, Cm1)))>>,
        <<K1, Free, PrivacyWithdraw(Nf2, A1, 2, root, Cm1,
                                    stub_withdraw_proof(input(Nf2, A3, 1, Cm1)))>>}

DomainCalls(s, d) ==
    LET message == [from |-> D1, to |-> D2, nonce |-> 0, fee |-> 1, payload |-> "msg"]
    IN {<<K1, Free, DomainCreate(D1, DomainParams("evm", 100))>>,
        <<K1, None, DomainCreate(D2, DomainParams("custom", 100))>>,
        <<K2, Free, DomainCreate(D2, DomainParams("evm", 10001))>>,
        <<K1, Free, DomainConfigUpdate(D1, DomainParams("evm", 200))>>,
        <<K1, None, DomainExecute(D1, "call", None)>>,
        <<K1, Free, DomainExecute(D1, "call", Some(30000001))>>,
        <<K1, Free, DomainExecute(D1, "not-an-evm-call", None)>>,
        <<K1, Free, DomainExecute(D2, "call", None)>>,
        <<K1, Free, CrossDomainSend(D1, D2, "msg", 1)>>,
        <<K2, Free, CrossDomainRelay(message)>>,
        <<K2, None, CrossDomainRelay(message)>>,
        <<K1, Free, FraudChallenge(D1, ZeroHash)>>,
        <<K1, Free, RollupBatchCommit(D1, "blob")>>}

GovernanceCallsOn(ids) ==
    {<<K1, Free, GovernanceProposal("raise")>>, <<K1, None, SystemUpgrade("vm", "2")>>}
    \cup {<<K1, Free, GovernanceVote(id, "For")>> : id \in ids}
    \cup {<<K2, Free, GovernanceVote(id, "Against")>> : id \in ids}
    \cup {<<K2, Free, GovernanceBridgeApprove(id)>> : id \in ids}
    \cup {<<K1, None, GovernanceExecute(id)>> : id \in ids}

GovernanceCalls(s) == GovernanceCallsOn(DOMAIN s.proposals \cup {<<"uuid4", 0>>})

CallsOf(w, s, d) ==
    CASE w = "bank" -> BankCalls(s)
      [] w = "transfer" -> TransferCalls
      [] w = "unbonding" -> UnbondingCalls(s)
      [] w = "staking" -> StakingCalls
      [] w = "privacy" -> PrivacyCalls(s)
      [] w = "domains" -> DomainCalls(s, d)
      [] w = "governance" -> GovernanceCalls(s) \cup {<<K2, Free, Stake(1)>>}

\* the transfer of 10 from K1 to the address of K2 with max_fee 1 and no
\* gas price
CappedTransfer(nonce) ==
    LET unsigned == [MakeTx(K1, nonce, None, Transfer(A2, 10)) EXCEPT !.max_fee = Some(1)]
    IN [unsigned EXCEPT !.signature = sign_bytes(K1, tx_signing_bytes(unsigned))]

\* the transactions a block can carry next: the calls of the clients with the
\* nonce their account holds, and three that no node accepts: one with a
\* nonce from the future, one for another chain, one with a bad signature
Candidates(w, s, d) ==
    LET nonce(key) == get_account(s, address_from_pubkey(key)).nonce
        sample == MakeTx(K1, nonce(K1), Free, Transfer(A2, 1))
    IN {MakeTx(c[1], nonce(c[1]), c[2], c[3]) : c \in CallsOf(w, s, d)}
       \cup (IF w = "transfer" THEN {CappedTransfer(nonce(K1))} ELSE {})
       \cup {MakeTx(K1, nonce(K1) + 1, Free, Transfer(A2, 1)),
             [sample EXCEPT !.chain_id = "kova-mainnet"],
             [sample EXCEPT !.signature = BadSignature]}

Addresses == {A1, A2, A3}

\* identifiers Uuid::new_v4 can return: any that the chain does not hold yet
UuidPool == {<<"uuid4", n>> : n \in 0..(MaxUuids - 1)}
FreshUuids(s) == UuidPool \ (DOMAIN s.validators \cup DOMAIN s.proposals)
NoUuid == <<"uuid4", 0 - 1>>
DrawsUuid(tx) == tx.payload.kind \in {"Stake", "GovernanceProposal", "SystemUpgrade"}
UuidsFor(tx, s, taken) == IF DrawsUuid(tx) THEN FreshUuids(s) \ taken ELSE {NoUuid}

BlockOf(h, txs) ==
    [header |-> [parent_hash |-> ZeroHash, height |-> h, proposer_id |-> A1,
                 state_root |-> ZeroHash],
     transactions |-> txs]

\* the sum, per owner, of the amounts of the Unstake and Undelegate
\* transactions among the steps that returned Ok
RECURSIVE Requested(_, _)
Requested(steps, owner) ==
    IF steps = <<>> THEN 0
    ELSE LET step == Head(steps) IN
         (IF /\ step.ok
             /\ step.tx.payload.kind \in {"Unstake", "Undelegate"}
             /\ address_from_pubkey(step.tx.public_key) = owner
          THEN step.tx.payload.amount ELSE 0)
         + Requested(Tail(steps), owner)

IdleRun ==
    [ok |-> TRUE, stage |-> "none", height |-> 0, steps |-> <<>>, before |-> None,
     after_txs |-> None, after_unbond |-> None, after |-> None,
     state_root |-> ZeroHash, gas_used |-> 0, minted |-> 0, held |-> 0]

IdlePeer ==
    [store |-> ChainState_default, domains |-> DomainRuntime_new, clock |-> 0,
     ok |-> TRUE, state_root |-> ZeroHash]

\* enqueuing holds the transactions of the enqueue_tx calls that have looked at
\* tx_index and not yet taken the lock of the mempool
IdleNode ==
    [mempool |-> <<>>, blocks |-> <<>>, applied |-> {}, tx_index |-> EmptyMap,
     block_store |-> EmptyMap, local_validator |-> None, enqueuing |-> <<>>]
IdleHistory == [applied |-> <<>>, certified |-> <<>>, drained |-> <<>>]

\* not constructed in this run
IdleTasks == None
IdleCluster == None
IdleDa == None
IdleApplying == None

IdleConsensus ==
    /\ engine = HotStuffEngine_new(<<>>)
    /\ last = [op |-> "new", arg |-> None, ok |-> TRUE]
    /\ ops = 0
    /\ honest_stake = TRUE

InitChain(w) ==
    /\ workload = w
    /\ LET g == from_genesis(GenesisOf(w)) IN
          /\ exec_ctx = g.ctx
          /\ state_store = g.store
    /\ domain_runtime = DomainRuntime_new
    /\ chain_height = 0
    /\ clock = 0
    /\ run = IdleRun
    /\ clean = TRUE
    /\ txs_done = 0
    /\ unbond_requested = [a \in Addresses |-> 0]
    /\ unbond_credited = [a \in Addresses |-> 0]

InitRuntime ==
    /\ \E w \in Workloads : InitChain(w)
    /\ IdleConsensus
    /\ peer = IdlePeer
    /\ node = IdleNode
    /\ history = IdleHistory
    /\ tasks = IdleTasks
    /\ cluster = IdleCluster
    /\ da_layer = IdleDa
    /\ applying = IdleApplying

\* apply_block called with the block txs at height h; uuids are the values
\* Uuid::new_v4 returns to each transaction, orders the iteration orders of
\* the hash maps the state root serialises entry by entry
ApplyBlockWith(h, txs, uuids) ==
    \E staged \in {apply_block_stages(exec_ctx, state_store, domain_runtime,
                                      BlockOf(h, txs), uuids, clock)} :
    \E orders \in IterationOrders(staged.store) :
    \E r \in {commit(staged, orders)} :
    LET paid(a) == IF r.stage = "txs" THEN 0
                   ELSE get_account(r.after_unbond, a).balance_x
                        - get_account(r.after_txs, a).balance_x
    IN /\ state_store' = r.store
       /\ domain_runtime' = r.domains
       /\ chain_height' = IF r.ok THEN h ELSE chain_height
       /\ run' = [ok |-> r.ok, stage |-> r.stage, height |-> h, steps |-> r.steps,
                  before |-> state_store, after_txs |-> r.after_txs,
                  after_unbond |-> r.after_unbond, after |-> r.store,
                  state_root |-> r.state_root, gas_used |-> r.gas_used,
                  minted |-> r.minted, held |-> Len(txs)]
       /\ clean' = (clean /\ r.ok)
       /\ txs_done' = txs_done + Len(txs)
       /\ unbond_requested' =
             [a \in Addresses |-> unbond_requested[a] + Requested(r.steps, a)]
       /\ unbond_credited' = [a \in Addresses |-> unbond_credited[a] + paid(a)]

\* the blocks a proposer can make at height h from what the clients send:
\* up to MaxBlockTxs transactions within the budget, the second one made for
\* the state the first one leaves; Do(txs, uuids) is what happens with it
WithBlock(h, calls(_, _, _), Do(_, _)) ==
    \/ Do(<<>>, <<>>)
    \/ /\ txs_done < MaxTxs
       /\ \E t1 \in calls(workload, state_store, domain_runtime) :
          \E u1 \in UuidsFor(t1, state_store, {}) :
          \E r1 \in {apply_tx(exec_ctx, state_store, domain_runtime, t1, h, u1, clock)} :
                \/ Do(<<t1>>, <<u1>>)
                \/ /\ r1.ok
                   /\ txs_done + 1 < MaxTxs
                   /\ MaxBlockTxs >= 2
                   /\ \E t2 \in calls(workload, r1.store, r1.domains) :
                      \E u2 \in UuidsFor(t2, r1.store, {u1}) :
                         Do(<<t1, t2>>, <<u1, u2>>)

\* a node applies a block, at a height above those it tried before
ApplyBlock ==
    /\ \E h \in {run.height + 1, run.height + 2} :
        /\ h <= MaxHeight
        /\ WithBlock(h, Candidates, LAMBDA txs, uuids : ApplyBlockWith(h, txs, uuids))
    /\ UNCHANGED <<otherVars, workload, exec_ctx, clock, consensusVars, peer, nodeVars>>

\* time passes between two blocks
Tick ==
    /\ workload = "governance"
    /\ clock < MaxTicks * GovernanceParams_default.timelock_ms
    /\ clock' = clock + GovernanceParams_default.timelock_ms
    /\ UNCHANGED <<otherVars, workload, exec_ctx, state_store, domain_runtime, chain_height, run,
                   clean, txs_done, unbond_requested, unbond_credited, consensusVars,
                   peer, nodeVars>>

NextRuntime ==
    \/ ApplyBlock
    \/ Tick

SpecRuntime == InitRuntime /\ [][NextRuntime]_vars

\* the governance clients on their own: the chain of the governance workload,
\* on which apply_tx is called with one transaction at a time, as often as
\* the clients like; run and clean keep describing apply_block calls, of which
\* there are none
InitGovernance ==
    /\ InitChain("governance")
    /\ IdleConsensus
    /\ peer = IdlePeer
    /\ node = IdleNode
    /\ history = IdleHistory
    /\ tasks = IdleTasks
    /\ cluster = IdleCluster
    /\ da_layer = IdleDa
    /\ applying = IdleApplying

\* the transactions of the governance clients about the proposals ids, and
\* GovernanceExecute from a second sender, who pays no fee
LifecycleCalls(ids) ==
    GovernanceCallsOn(ids) \cup {<<K2, Free, GovernanceExecute(id)>> : id \in ids}

\* apply_tx called with a governance transaction that carries the nonce of
\* its sender, at the time of the clock
SubmitGovernance(call) ==
    /\ call \in LifecycleCalls(DOMAIN state_store.proposals \cup {<<"uuid4", 0>>})
    /\ \E tx \in {MakeTx(call[1], get_account(state_store, address_from_pubkey(call[1])).nonce,
                         call[2], call[3])} :
       \E uuid \in UuidsFor(tx, state_store, {}) :
       \E r \in {apply_tx(exec_ctx, state_store, domain_runtime, tx, chain_height + 1,
                          uuid, clock)} :
          /\ state_store' = r.store
          /\ domain_runtime' = r.domains
    /\ UNCHANGED <<otherVars, workload, exec_ctx, chain_height, clock, run, clean,
                   txs_done, unbond_requested, unbond_credited, consensusVars, peer,
                   nodeVars>>

\* some client sends one of its transactions
GovernanceClients == \E call \in LifecycleCalls(UuidPool) : SubmitGovernance(call)

NextGovernance ==
    \/ GovernanceClients
    \/ Tick

SpecGovernance == InitGovernance /\ [][NextGovernance]_vars

\* the clients keep sending transactions as long as one of them has an
\* effect, and time keeps passing
SpecGovernanceFair ==
    /\ SpecGovernance
    /\ WF_vars(GovernanceClients)
    /\ WF_vars(Tick)

----------------------------------------------------------------------------
(* Two replicas of the runtime, started from the same genesis and fed the  *)
(* same blocks.  Each has its own clock, its own source of random          *)
(* identifiers and its own hash maps.                                      *)

ReplicaWorkloads == {"staking", "governance"}

\* the number of blocks the replicas are fed
MaxReplicaBlocks == 2

\* the number of times the clock of a replica advances
MaxReplicaTicks == 1

\* the calls of the workload that create validators and proposals or cast votes
ReplicaCandidates(w, s, d) ==
    {tx \in Candidates(w, s, d) :
        /\ tx.payload.kind \in {"Stake", "Delegate", "GovernanceProposal",
                                "GovernanceVote", "SystemUpgrade"}
        /\ verify_tx_signature(tx) # None
        /\ tx.chain_id = exec_ctx.chain_id
        /\ tx.nonce = get_account(s, address_from_pubkey(tx.public_key)).nonce}

InitReplicas ==
    /\ \E w \in ReplicaWorkloads : InitChain(w)
    /\ IdleConsensus
    /\ peer = [IdlePeer EXCEPT !.store = from_genesis(GenesisOf(workload)).store]
    /\ node = IdleNode
    /\ history = IdleHistory
    /\ tasks = IdleTasks
    /\ cluster = IdleCluster
    /\ da_layer = IdleDa
    /\ applying = IdleApplying

\* the second replica applies the block
PeerApplyWith(h, txs) ==
    \E u1 \in (IF Len(txs) >= 1 THEN UuidsFor(txs[1], peer.store, {}) ELSE {NoUuid}) :
    \E u2 \in (IF Len(txs) >= 2 THEN UuidsFor(txs[2], peer.store, {u1}) ELSE {NoUuid}) :
    \E staged \in {apply_block_stages(exec_ctx, peer.store, peer.domains,
                                      BlockOf(h, txs), <<u1, u2>>, peer.clock)} :
    \E orders \in IterationOrders(staged.store) :
    \E r \in {commit(staged, orders)} :
       peer' = [store |-> r.store, domains |-> r.domains, clock |-> peer.clock,
                ok |-> r.ok, state_root |-> r.state_root]

\* both replicas apply the same block
ReplicateBlock ==
    /\ \E h \in {run.height + 1} :
        /\ h <= MaxReplicaBlocks
        /\ WithBlock(h, ReplicaCandidates,
                     LAMBDA txs, uuids : /\ ApplyBlockWith(h, txs, uuids)
                                         /\ PeerApplyWith(h, txs))
    /\ UNCHANGED <<otherVars, workload, exec_ctx, clock, consensusVars, nodeVars>>

\* time passes on the first replica
ReplicaTick ==
    /\ workload = "governance"
    /\ clock < MaxReplicaTicks * GovernanceParams_default.timelock_ms
    /\ clock' = clock + GovernanceParams_default.timelock_ms
    /\ UNCHANGED <<otherVars, workload, exec_ctx, state_store, domain_runtime, chain_height, run,
                   clean, txs_done, unbond_requested, unbond_credited, consensusVars,
                   peer, nodeVars>>

\* time passes on the second replica
PeerTick ==
    /\ workload = "governance"
    /\ peer.clock < MaxReplicaTicks * GovernanceParams_default.timelock_ms
    /\ peer' = [peer EXCEPT !.clock = @ + GovernanceParams_default.timelock_ms]
    /\ UNCHANGED <<otherVars, runtimeVars, consensusVars, nodeVars>>

NextReplicas ==
    \/ ReplicateBlock
    \/ ReplicaTick
    \/ PeerTick

SpecReplicas == InitReplicas /\ [][NextReplicas]_vars

----------------------------------------------------------------------------
(* The consensus engine driven by arbitrary callers *)

\* Validator sets the engine is constructed with (tests/smoke.rs uses 10/15/25)
StakeConfigs == {<<10, 15, 25>>, <<1, 1, 1>>, <<2, 1, 1>>}

KeyOf(i) == <<Key("k1"), Key("k2"), Key("k3")>>[i]
IdOf(i) == validator_id_from_pubkey(KeyOf(i))

ValidatorSet(stakes) == [i \in 1..Len(stakes) |-> Validator(KeyOf(i), IdOf(i), stakes[i])]

Block(proposer, parent, h) ==
    [header |-> [parent_hash |-> parent, height |-> h, proposer_id |-> proposer,
                 state_root |-> ZeroHash],
     transactions |-> <<>>]

B1 == Block(address_from_pubkey(Key("k1")), ZeroHash, 1)
B2 == Block(address_from_pubkey(Key("k2")), hash_block(B1), 2)

Proposal(block, key, sig) == [block |-> block, public_key |-> key, signature |-> sig]

ValidProposals ==
    {Proposal(B1, Key("k1"), sign_proposal(B1, Key("k1"))),
     Proposal(B2, Key("k2"), sign_proposal(B2, Key("k2")))}

\* proposals that verify_proposal rejects: the key does not hash to the
\* proposer, the signature is over another block, by another key, or garbage
InvalidProposals ==
    {Proposal(B1, Key("k2"), sign_proposal(B1, Key("k2"))),
     Proposal(B1, Key("k1"), sign_proposal(B2, Key("k1"))),
     Proposal(B1, Key("k1"), sign_proposal(B1, Key("k2"))),
     Proposal(B2, Key("k2"), BadSignature)}

VoteMsg(block_id, v, voter, sig) ==
    [block_id |-> block_id, view |-> v, voter |-> voter, signature |-> sig]

BlockIds == {hash_block(B1), hash_block(B2)}

\* votes of registered validators presenting their registered record
HonestVotes(vals) ==
    {VoteMsg(b, v, vals[i], sign_vote(b, v, vals[i].pubkey)) :
        b \in BlockIds, v \in 0..MaxVoteView, i \in 1..Len(vals)}

\* a registered validator presenting a record with a stake of its own choosing
ForgedVotes(vals) ==
    {VoteMsg(hash_block(B1), 0, [vals[1] EXCEPT !.stake = 40],
             sign_vote(hash_block(B1), 0, vals[1].pubkey))}

\* votes that verify_vote rejects
InvalidVotes(vals) ==
    LET b == hash_block(B1) IN
    {VoteMsg(b, 0, Validator(Key("k9"), validator_id_from_pubkey(Key("k9")), 25), sign_vote(b, 0, Key("k9"))),
     VoteMsg(b, 0, [vals[1] EXCEPT !.pubkey = Key("k2")], sign_vote(b, 0, Key("k2"))),
     VoteMsg(b, 0, vals[3], sign_vote(b, 0, Key("k2"))),
     VoteMsg(b, 0, vals[3], sign_vote(b, 1, Key("k3"))),
     VoteMsg(b, 0, vals[3], sign_vote(hash_block(B2), 0, Key("k3"))),
     VoteMsg(b, 0, vals[3], BadSignature)}

QuorumCertificates ==
    {[block_id |-> b, view |-> 0, signatures |-> <<>>, voters |-> <<>>] : b \in BlockIds}

Call(op, arg, ok) == [op |-> op, arg |-> arg, ok |-> ok]

InitConsensus ==
    /\ \E stakes \in StakeConfigs : engine = HotStuffEngine_new(ValidatorSet(stakes))
    /\ last = Call("new", None, TRUE)
    /\ ops = 0
    /\ honest_stake = TRUE
    /\ workload = "none"
    /\ exec_ctx = None
    /\ state_store = ChainState_default
    /\ domain_runtime = DomainRuntime_new
    /\ chain_height = 0
    /\ clock = 0
    /\ run = IdleRun
    /\ clean = TRUE
    /\ txs_done = 0
    /\ unbond_requested = [a \in Addresses |-> 0]
    /\ unbond_credited = [a \in Addresses |-> 0]
    /\ peer = IdlePeer
    /\ node = IdleNode
    /\ history = IdleHistory
    /\ tasks = IdleTasks
    /\ cluster = IdleCluster
    /\ da_layer = IdleDa
    /\ applying = IdleApplying

Budget == ops < MaxOps

Propose ==
    /\ \E p \in ValidProposals \cup InvalidProposals :
          LET r == propose(engine, p) IN
          /\ r.ok => (Budget /\ engine.view < MaxView)
          /\ engine' = r.e
          /\ last' = Call("propose", p, r.ok)
          /\ ops' = IF r.ok THEN ops + 1 ELSE ops
    /\ UNCHANGED <<otherVars, honest_stake, runtimeVars, peer, nodeVars>>

Vote ==
    \E vt \in HonestVotes(engine.validators) \cup ForgedVotes(engine.validators)
              \cup InvalidVotes(engine.validators) :
        LET r == vote(engine, vt) IN
        /\ UNCHANGED <<otherVars, runtimeVars, peer, nodeVars>>
        /\ r.e # engine => Budget
        /\ engine' = r.e
        /\ last' = Call("vote", vt, r.ok)
        /\ ops' = IF r.e # engine THEN ops + 1 ELSE ops
        /\ honest_stake' = (honest_stake /\
              (r.e # engine =>
                  \E i \in 1..Len(engine.validators) : engine.validators[i] = vt.voter))

OnQc ==
    /\ Budget
    /\ \E qc \in QuorumCertificates :
          LET r == on_qc(engine, qc) IN
          /\ engine' = r.e
          /\ last' = Call("on_qc", qc, r.ok)
    /\ ops' = ops + 1
    /\ UNCHANGED <<otherVars, honest_stake, runtimeVars, peer, nodeVars>>

OnTimeout ==
    /\ \E v \in 0..MaxView :
          LET r == on_timeout(engine, v) IN
          /\ r.e # engine => (Budget /\ engine.view < MaxView)
          /\ engine' = r.e
          /\ last' = Call("on_timeout", v, r.ok)
          /\ ops' = IF r.e # engine THEN ops + 1 ELSE ops
    /\ UNCHANGED <<otherVars, honest_stake, runtimeVars, peer, nodeVars>>

RecordSlash ==
    /\ Budget
    /\ LET ev == [validator_id |-> IdOf(1), reason |-> "double-sign", height |-> engine.height]
           r == record_slash(engine, ev) IN
          /\ engine' = r.e
          /\ last' = Call("record_slash", ev, r.ok)
    /\ ops' = ops + 1
    /\ UNCHANGED <<otherVars, honest_stake, runtimeVars, peer, nodeVars>>

PopCommit ==
    /\ LET r == pop_commit(engine) IN
          /\ engine' = r.e
          /\ last' = Call("pop_commit", r.ret, TRUE)
    /\ UNCHANGED <<otherVars, ops, honest_stake, runtimeVars, peer, nodeVars>>

NextConsensus ==
    \/ Propose
    \/ Vote
    \/ OnQc
    \/ OnTimeout
    \/ RecordSlash
    \/ PopCommit

SpecConsensus == InitConsensus /\ [][NextConsensus]_vars

----------------------------------------------------------------------------
(* leader_for_view asked of engines built over arbitrary rosters: any      *)
(* number of validators up to MaxRoster, the empty roster included, each   *)
(* with a stake of 0..MaxRosterStake                                       *)

MaxRoster == 3
MaxRosterStake == 2
MaxLeaderView == 7

RECURSIVE Rosters(_)
Rosters(n) ==
    IF n = 0 THEN {<<>>}
    ELSE Rosters(n - 1) \cup
         {Append(r, Validator(Key(n), validator_id_from_pubkey(Key(n)), stake)) :
             r \in {x \in Rosters(n - 1) : Len(x) = n - 1},
             stake \in 0..MaxRosterStake}

InitLeader ==
    /\ \E roster \in Rosters(MaxRoster) : engine = HotStuffEngine_new(roster)
    /\ last = Call("new", None, TRUE)
    /\ ops = 0
    /\ honest_stake = TRUE
    /\ workload = "none"
    /\ exec_ctx = None
    /\ state_store = ChainState_default
    /\ domain_runtime = DomainRuntime_new
    /\ chain_height = 0
    /\ clock = 0
    /\ run = IdleRun
    /\ clean = TRUE
    /\ txs_done = 0
    /\ unbond_requested = [a \in Addresses |-> 0]
    /\ unbond_credited = [a \in Addresses |-> 0]
    /\ peer = IdlePeer
    /\ node = IdleNode
    /\ history = IdleHistory
    /\ tasks = IdleTasks
    /\ cluster = IdleCluster
    /\ da_layer = IdleDa
    /\ applying = IdleApplying

\* ConsensusEngine::leader_for_view called with any view
LeaderForView ==
    /\ \E v \in 0..MaxLeaderView :
          last' = [op |-> "leader_for_view", arg |-> v, ok |-> TRUE,
                   ret |-> leader_for_view(engine, v)]
    /\ UNCHANGED <<otherVars, engine, ops, honest_stake, runtimeVars, peer, nodeVars>>

NextLeader == LeaderForView

SpecLeader == InitLeader /\ [][NextLeader]_vars

----------------------------------------------------------------------------
(* One engine called from several tasks at once.  HotStuffEngine holds its *)
(* state in an Arc<Mutex<HotStuffInner>>; every operation takes the mutex, *)
(* works on the guarded state and drops the guard when it returns.  A task *)
(* is between calls ("idle"), blocked in lock() ("waiting") or inside the  *)
(* body with the guard ("locked").  What the task read through the guard   *)
(* is kept in tasks.guard, and what it computed is stored when it returns. *)

MaxTasks == 2
MaxTaskCalls == 3

TaskIds == 1..MaxTasks

TaskArg(op, arg) == [op |-> op, arg |-> arg]

TaskCalls(e) ==
    {TaskArg("propose", p) : p \in ValidProposals}
    \cup {TaskArg("propose", Proposal(B1, Key("k2"), sign_proposal(B1, Key("k2"))))}
    \cup {TaskArg("vote", vt) :
             vt \in {x \in HonestVotes(e.validators) : x.block_id = hash_block(B1)}}
    \cup {TaskArg("on_qc", qc) : qc \in QuorumCertificates}
    \cup {TaskArg("on_timeout", v) : v \in 0..MaxView}
    \cup {TaskArg("record_slash",
                  [validator_id |-> IdOf(1), reason |-> "double-sign", height |-> 0])}
    \cup {TaskArg("pop_commit", None)}

\* the body of an operation, run on the guarded state e
ApplyCall(e, c) ==
    CASE c.op = "propose" ->
            LET r == propose(e, c.arg) IN [ok |-> r.ok, e |-> r.e, ret |-> None]
      [] c.op = "vote" ->
            LET r == vote(e, c.arg) IN [ok |-> r.ok, e |-> r.e, ret |-> None]
      [] c.op = "on_qc" ->
            LET r == on_qc(e, c.arg) IN [ok |-> r.ok, e |-> r.e, ret |-> None]
      [] c.op = "on_timeout" ->
            LET r == on_timeout(e, c.arg) IN [ok |-> r.ok, e |-> r.e, ret |-> None]
      [] c.op = "record_slash" ->
            LET r == record_slash(e, c.arg) IN [ok |-> r.ok, e |-> r.e, ret |-> None]
      [] c.op = "pop_commit" ->
            LET r == pop_commit(e) IN [ok |-> TRUE, e |-> r.e, ret |-> r.ret]

\* the ids an operation pushed on the commit queue
Pushes(before, after, op) ==
    IF op = "pop_commit" THEN <<>>
    ELSE SubSeq(after.commit_queue, Len(before.commit_queue) + 1,
                Len(after.commit_queue))

lock_free_always(tk) == TRUE

\* Mutex::lock returns once no other task holds the guard
lock_free(tk) == tk.lock = 0

InitTasks ==
    /\ engine = HotStuffEngine_new(ValidatorSet(<<10, 15, 25>>))
    /\ tasks = [lock |-> 0,
                pc |-> [t \in TaskIds |-> "idle"],
                call |-> [t \in TaskIds |-> None],
                guard |-> [t \in TaskIds |-> None],
                serial |-> HotStuffEngine_new(ValidatorSet(<<10, 15, 25>>)),
                pushed |-> <<>>, popped |-> <<>>,
                calls |-> 0, contended |-> FALSE]
    /\ last = Call("new", None, TRUE)
    /\ ops = 0
    /\ honest_stake = TRUE
    /\ workload = "none"
    /\ exec_ctx = None
    /\ state_store = ChainState_default
    /\ domain_runtime = DomainRuntime_new
    /\ chain_height = 0
    /\ clock = 0
    /\ run = IdleRun
    /\ clean = TRUE
    /\ txs_done = 0
    /\ unbond_requested = [a \in Addresses |-> 0]
    /\ unbond_credited = [a \in Addresses |-> 0]
    /\ peer = IdlePeer
    /\ node = IdleNode
    /\ history = IdleHistory
    /\ cluster = IdleCluster
    /\ da_layer = IdleDa
    /\ applying = IdleApplying

\* a task calls an operation: propose verifies its proposal before it asks
\* for the mutex and returns the error without asking; every other call, and
\* a verified proposal, goes on to lock()
BeginCall(t) ==
    /\ tasks.pc[t] = "idle"
    /\ tasks.calls < MaxTaskCalls
    /\ \E c \in TaskCalls(engine) :
          IF c.op = "propose" /\ ~verify_proposal(c.arg, hash_block(c.arg.block))
          THEN /\ tasks' = [tasks EXCEPT !.calls = @ + 1]
               /\ last' = Call("propose", c.arg, FALSE)
          ELSE /\ tasks' = [tasks EXCEPT !.calls = @ + 1,
                                         !.pc = [@ EXCEPT ![t] = "waiting"],
                                         !.call = [@ EXCEPT ![t] = c]]
               /\ UNCHANGED last
    /\ UNCHANGED <<engine, ops, honest_stake, runtimeVars, peer, nodeVars,
                   cluster, da_layer, applying>>

\* self.inner.lock().unwrap()
AcquireLock(t) ==
    /\ tasks.pc[t] = "waiting"
    /\ lock_free(tasks)
    /\ tasks' = [tasks EXCEPT !.lock = t,
                              !.pc = [@ EXCEPT ![t] = "locked"],
                              !.guard = [@ EXCEPT ![t] = engine]]
    /\ UNCHANGED <<engine, last, ops, honest_stake, runtimeVars, peer, nodeVars,
                   cluster, da_layer, applying>>

\* the body ends and the guard is dropped
ReleaseLock(t) ==
    /\ tasks.pc[t] = "locked"
    /\ \E r \in {ApplyCall(tasks.guard[t], tasks.call[t])} :
          /\ engine' = r.e
          /\ last' = Call(tasks.call[t].op,
                          IF tasks.call[t].op = "pop_commit" THEN r.ret
                          ELSE tasks.call[t].arg, r.ok)
          /\ tasks' = [tasks EXCEPT
                !.lock = 0,
                !.pc = [@ EXCEPT ![t] = "idle"],
                !.call = [@ EXCEPT ![t] = None],
                !.guard = [@ EXCEPT ![t] = None],
                !.serial = ApplyCall(@, tasks.call[t]).e,
                !.pushed = @ \o Pushes(tasks.guard[t], r.e, tasks.call[t].op),
                !.popped = IF r.ret = None THEN @ ELSE Append(@, r.ret[1]),
                !.contended = @ \/ \E u \in TaskIds : tasks.pc[u] = "waiting"]
    /\ UNCHANGED <<ops, honest_stake, runtimeVars, peer, nodeVars, cluster, da_layer, applying>>

NextTasks ==
    \E t \in TaskIds :
        \/ BeginCall(t)
        \/ AcquireLock(t)
        \/ ReleaseLock(t)

SpecTasks == InitTasks /\ [][NextTasks]_vars

----------------------------------------------------------------------------
(* protocol/node: one validator node, the clients that send it            *)
(* transactions and the peer that sends it consensus messages.  The node  *)
(* runs without a zk backend; the data availability layer proves every    *)
(* blob it stored.                                                        *)

MEMPOOL_LIMIT == 10000

tx_hash(tx) == <<"txh", tx>>

saturating_add(x, y) ==
    LET sum == checked_add(x, y) IN IF sum = None THEN 0 - 1 ELSE sum[1]

tx_priority(tx, base_fee) ==
    IF tx.max_fee # None
    THEN saturating_add(tx.max_fee[1],
                        IF tx.max_priority_fee = None THEN 0 ELSE tx.max_priority_fee[1])
    ELSE IF tx.gas_price = None THEN base_fee ELSE tx.gas_price[1]

\* the stable sort of build_block: highest priority first
RECURSIVE sort_by_priority(_, _)
sort_by_priority(txs, base_fee) ==
    IF txs = <<>> THEN <<>>
    ELSE LET sorted == sort_by_priority(SubSeq(txs, 1, Len(txs) - 1), base_fee)
             tx == txs[Len(txs)]
             ahead == {i \in 1..Len(sorted) :
                          ULt(tx_priority(sorted[i], base_fee), tx_priority(tx, base_fee))}
             at == IF ahead = {} THEN Len(sorted) + 1
                   ELSE CHOOSE i \in ahead : \A j \in ahead : i <= j
         IN SubSeq(sorted, 1, at - 1) \o <<tx>> \o SubSeq(sorted, at, Len(sorted))

\* build_block, for a mempool that is not empty: the block, unsealed
build_block(n, e, ctx) ==
    [header |-> [parent_hash |-> IF n.blocks = <<>> THEN ZeroHash
                                 ELSE hash_block(n.blocks[Len(n.blocks)]),
                 height |-> Len(n.blocks),
                 proposer_id |-> n.local_validator.owner,
                 state_root |-> ZeroHash,
                 gas_used |-> 0,
                 consensus_metadata |-> [view |-> e.view]],
     transactions |-> sort_by_priority(n.mempool, ctx.base_fee)]

drop_included_txs(mempool, txs) ==
    SelectSeq(mempool, LAMBDA t : ~Contains(txs, t))

RECURSIVE index_txs(_, _, _)
index_txs(index, block, i) ==
    IF i > Len(block.transactions) THEN index
    ELSE index_txs(MapPut(index, tx_hash(block.transactions[i]),
                          <<block.transactions[i], block.header.height>>),
                   block, i + 1)

\* the result of execute_and_record: Ok or Err, the node, the store and the
\* domain runtime after the call; ran tells whether apply_block returned Ok
Executed(ok, n, s, d, sealed, block_id, ran) ==
    [ok |-> ok, node |-> n, store |-> s, domains |-> d, sealed |-> sealed,
     block_id |-> block_id, ran |-> ran]

\* execute_and_record once apply_block has returned result
record_block(n, block, block_id, sealed, result) ==
    IF ~result.ok
    THEN Executed(FALSE, n, result.store, result.domains, block, block_id, FALSE)
    ELSE IF block.header.state_root # ZeroHash
            /\ block.header.state_root # result.state_root
    THEN Executed(FALSE, n, result.store, result.domains, block, block_id, TRUE)
    ELSE Executed(TRUE,
                  [n EXCEPT !.block_store = MapPut(@, block_id, sealed),
                            !.applied = @ \cup {block_id},
                            !.blocks = Append(@, sealed),
                            !.mempool = drop_included_txs(@, sealed.transactions),
                            !.tx_index = index_txs(@, sealed, 1)],
                  result.store, result.domains, sealed, block_id, TRUE)

seal(block, result) ==
    [block EXCEPT !.header.state_root = result.state_root,
                  !.header.gas_used = result.gas_used]

\* execute_and_record, with the result apply_block returns for the block
execute_and_record_with(n, s, d, block, result) ==
    IF hash_block(block) \in n.applied
    THEN Executed(TRUE, n, s, d, block, hash_block(block), FALSE)
    ELSE record_block(n, block, hash_block(block), seal(block, result), result)

\* execute_and_record
execute_and_record(n, ctx, s, d, block, now, orders) ==
    execute_and_record_with(n, s, d, block,
        apply_block(ctx, s, d, block,
                    [i \in 1..Len(block.transactions) |-> NoUuid], now, orders))

\* the ids a call of an engine method appended to the commit queue
Queued(before, after) ==
    SubSeq(after.commit_queue, Len(before.commit_queue) + 1, Len(after.commit_queue))

\* create_node_with: the node of the key pair K1 over the genesis state, the
\* engine over the validators of the state, sorted by owner
InitNode ==
    /\ InitChain("node")
    /\ last = [op |-> "new", arg |-> None, ok |-> TRUE]
    /\ ops = 0
    /\ honest_stake = TRUE
    /\ peer = IdlePeer
    /\ history = IdleHistory
    /\ tasks = IdleTasks
    /\ cluster = IdleCluster
    /\ da_layer = IdleDa
    /\ applying = IdleApplying
    /\ LET validators == from_genesis(GenesisOf("node")).store.validators
           v1 == validators[validator_id_from_pubkey(K1)]
           v2 == validators[validator_id_from_pubkey(K2)]
       IN /\ \E sorted \in {<<v1, v2>>, <<v2, v1>>} : engine = HotStuffEngine_new(sorted)
          /\ node = [IdleNode EXCEPT !.local_validator = v1]

\* the transactions the clients send: transfers of K1 with the nonces the
\* chain will ask for, at two prices, and one with a bad signature
NodeTxs ==
    LET free == MakeTx(K1, 0, Free, Transfer(A2, 1)) IN
    {free, MakeTx(K1, 0, None, Transfer(A2, 1)), MakeTx(K1, 1, Free, Transfer(A2, 1)),
     [free EXCEPT !.signature = BadSignature]}

\* enqueue_tx
EnqueueTx ==
    /\ \E tx \in NodeTxs :
          IF \/ verify_tx_signature(tx) = None
             \/ tx_hash(tx) \in DOMAIN node.tx_index
             \/ Len(node.mempool) >= MEMPOOL_LIMIT
             \/ Contains(node.mempool, tx)
          THEN node' = node
          ELSE node' = [node EXCEPT !.mempool = Append(@, tx)]
    /\ UNCHANGED <<otherVars, consensusVars, runtimeVars, peer, history>>

\* the blocks whose transactions have changed the chain state, in order
Applied(r) == IF r.ran THEN Append(history.applied, r.block_id) ELSE history.applied

\* the vote of the node for a block in a view
OwnVote(block_id, view) ==
    [block_id |-> block_id, view |-> view, voter |-> node.local_validator,
     signature |-> sign_vote(block_id, view, K1)]

\* execute_and_record of the node on a block, for each iteration order the
\* hash maps of the state can have when the state root is taken
Executions(n, block) ==
    UNION {{execute_and_record_with(n, state_store, domain_runtime, block, result) :
               result \in {commit(staged, orders) :
                              orders \in IterationOrders(staged.store)}} :
           staged \in {apply_block_stages(exec_ctx, state_store, domain_runtime, block,
                           [i \in 1..Len(block.transactions) |-> NoUuid], clock)}}

\* the node after the call r of execute_and_record and, when it returned Ok,
\* its vote in the engine proposed and the drain of the commit queue
Record(r, proposed, view) ==
    /\ node' = r.node
    /\ state_store' = r.store
    /\ domain_runtime' = r.domains
    /\ IF ~r.ok
       THEN /\ engine' = proposed
            /\ history' = [history EXCEPT !.applied = Applied(r)]
       ELSE \E voted \in {vote(proposed, OwnVote(r.block_id, view))} :
            /\ engine' = [voted.e EXCEPT !.commit_queue = <<>>]
            /\ history' = [applied |-> Applied(r),
                           certified |-> history.certified \o Queued(proposed, voted.e),
                           drained |-> history.drained \o voted.e.commit_queue]

\* is_leader of spawn_block_production: without a leader, or without a local
\* validator, the node takes itself for the leader
is_leader_always(e, n) == TRUE
is_leader(e, n) ==
    LET leader == leader_for_view(e, e.view) IN
        (leader # None /\ n.local_validator # None) => leader[1].id = n.local_validator.id

\* one turn of the loop of spawn_block_production in which the node leads the
\* view and its mempool holds something
ProduceBlock ==
    /\ engine.view < MaxView
    /\ is_leader(engine, node)
    /\ node.mempool # <<>>
    /\ \E block \in {build_block(node, engine, exec_ctx)} :
       \E r \in Executions([node EXCEPT !.mempool = <<>>], block) :
          IF ~r.ok THEN Record(r, engine, engine.view)
          ELSE \E proposed \in {propose(engine, [block |-> r.sealed, public_key |-> K1,
                                                 signature |-> sign_proposal(r.sealed, K1)])} :
               IF ~proposed.ok
               THEN /\ node' = r.node
                    /\ state_store' = r.store
                    /\ domain_runtime' = r.domains
                    /\ engine' = engine
                    /\ history' = [history EXCEPT !.applied = Applied(r)]
               ELSE Record(r, proposed.e, engine.view)
    /\ UNCHANGED <<otherVars, last, ops, honest_stake, workload, exec_ctx, chain_height, clock,
                   run, clean, txs_done, unbond_requested, unbond_credited, peer>>

\* verify_consensus_message
verify_consensus_message(e, msg) ==
    CASE msg.kind = "Propose" ->
            /\ address_from_pubkey(msg.proposal.public_key)
                  = msg.proposal.block.header.proposer_id
            /\ verify_signature_bytes(msg.proposal.public_key, msg.proposal.signature,
                                      hash_block(msg.proposal.block))
      [] msg.kind = "Vote" ->
            /\ \A i \in 1..Len(e.validators) :
                  (/\ e.validators[i].id = msg.vote.voter.id
                   /\ \A j \in 1..(i - 1) : e.validators[j].id # msg.vote.voter.id)
                  => e.validators[i].pubkey = msg.vote.voter.pubkey
            /\ verify_signature_bytes(msg.vote.voter.pubkey, msg.vote.signature,
                                      vote_signing_bytes(msg.vote.block_id, msg.vote.view))
      [] msg.kind = "Timeout" ->
            \E i \in 1..Len(e.validators) : e.validators[i].id = msg.from.id

\* what the peer, the validator of the key pair K2, can send: a proposal of a
\* block it built on the node's chain, sealed as it executed it or not yet
\* sealed, or one signed by another key; a vote for a block the node has seen,
\* signed by K2 or forged; a timeout
PeerMessages ==
    LET v2 == engine.validators[CHOOSE i \in 1..Len(engine.validators) :
                                   engine.validators[i].pubkey = K2]
        built(txs, view) ==
            [header |-> [parent_hash |-> IF node.blocks = <<>> THEN ZeroHash
                                         ELSE hash_block(node.blocks[Len(node.blocks)]),
                         height |-> Len(node.blocks), proposer_id |-> A2,
                         state_root |-> ZeroHash, gas_used |-> 0,
                         consensus_metadata |-> [view |-> view]],
             transactions |-> txs]
        sealed(block) ==
            UNION {{seal(block, commit(staged, orders)) :
                       orders \in IF staged.ok THEN IterationOrders(staged.store) ELSE {}} :
                   staged \in {apply_block_stages(exec_ctx, state_store, domain_runtime,
                                   block, [i \in 1..Len(block.transactions) |-> NoUuid],
                                   clock)}}
        blocks == {built(<<tx>>, engine.view) :
                      tx \in {t \in NodeTxs : verify_tx_signature(t) # None}}
        offered == blocks \cup UNION {sealed(block) : block \in blocks}
        seen == (DOMAIN engine.block_tree) \cup node.applied
    IN {[kind |-> "Propose",
         proposal |-> [block |-> block, public_key |-> K2,
                       signature |-> sign_proposal(block, K2)]] : block \in offered}
       \cup {[kind |-> "Propose",
              proposal |-> [block |-> block, public_key |-> K2,
                            signature |-> BadSignature]] : block \in blocks}
       \cup {[kind |-> "Vote",
              vote |-> [block_id |-> id, view |-> view, voter |-> v2,
                        signature |-> sign_vote(id, view, key)]] :
                id \in seen, view \in 0..(MaxView - 1), key \in {K1, K2}}
       \cup {[kind |-> "Timeout", view |-> view, from |-> v2] : view \in 0..(MaxView - 1)}

\* handle_message
HandleMessage ==
    /\ engine.view < MaxView
    /\ \E msg \in PeerMessages :
       IF ~verify_consensus_message(engine, msg)
       THEN UNCHANGED <<engine, node, state_store, domain_runtime, history>>
       ELSE
       CASE msg.kind = "Propose" ->
               \E proposed \in {propose(engine, msg.proposal)} :
               IF ~proposed.ok
               THEN UNCHANGED <<engine, node, state_store, domain_runtime, history>>
               ELSE \E r \in Executions(node, msg.proposal.block) :
                       Record(r, proposed.e,
                              msg.proposal.block.header.consensus_metadata.view)
         [] msg.kind = "Vote" ->
               \E voted \in {vote(engine, msg.vote)} :
               /\ engine' = [voted.e EXCEPT !.commit_queue = <<>>]
               /\ history' =
                    [history EXCEPT !.certified = @ \o Queued(engine, voted.e),
                                    !.drained = @ \o voted.e.commit_queue]
               /\ UNCHANGED <<node, state_store, domain_runtime>>
         [] msg.kind = "Timeout" ->
               \E timed \in {on_timeout(engine, msg.view)} :
               /\ engine' = [timed.e EXCEPT !.commit_queue = <<>>]
               /\ history' = [history EXCEPT !.drained = @ \o timed.e.commit_queue]
               /\ UNCHANGED <<node, state_store, domain_runtime>>
    /\ UNCHANGED <<otherVars, last, ops, honest_stake, workload, exec_ctx, chain_height, clock,
                   run, clean, txs_done, unbond_requested, unbond_credited, peer>>

NextNode ==
    \/ EnqueueTx
    \/ ProduceBlock
    \/ HandleMessage

SpecNode == InitNode /\ [][NextNode]_vars

\* enqueue_tx calls in flight at once
MaxEnqueuing == 1

NodeUnchanged == UNCHANGED <<otherVars, consensusVars, runtimeVars, peer, history>>

\* enqueue_tx up to the release of the lock of tx_index: the signature and
\* the index are checked
EnqueueChecked ==
    /\ Len(node.enqueuing) < MaxEnqueuing
    /\ \E tx \in NodeTxs :
          IF verify_tx_signature(tx) = None \/ tx_hash(tx) \in DOMAIN node.tx_index
          THEN node' = node
          ELSE node' = [node EXCEPT !.enqueuing = Append(@, tx)]
    /\ NodeUnchanged

Without(seq, i) == SubSeq(seq, 1, i - 1) \o SubSeq(seq, i + 1, Len(seq))

\* enqueue_tx from the lock of the mempool on: the limit and the queue are
\* checked and the transaction is pushed
push(mempool, tx) ==
    IF Len(mempool) >= MEMPOOL_LIMIT \/ Contains(mempool, tx) THEN mempool
    ELSE Append(mempool, tx)

EnqueuePushed ==
    /\ \E i \in 1..Len(node.enqueuing) :
          node' = [node EXCEPT !.mempool = push(@, node.enqueuing[i]),
                               !.enqueuing = Without(@, i)]
    /\ NodeUnchanged

\* one turn of the loop of spawn_block_production, whoever leads the view
ProductionTurn ==
    IF is_leader(engine, node) /\ node.mempool # <<>>
    THEN ProduceBlock
    ELSE UNCHANGED vars

\* the node with its callers of enqueue_tx on threads of their own
NextMempool ==
    \/ EnqueueChecked
    \/ EnqueuePushed
    \/ ProductionTurn
    \/ HandleMessage

SpecMempool == InitNode /\ [][NextMempool]_vars

----------------------------------------------------------------------------
(* protocol/node: two nodes on one LocalBus, as consensus_da_state_end_to_end *)
(* sets them up: the same genesis with the validators of both nodes at equal  *)
(* stake, one InMemoryDA shared by both, a network listener and a block       *)
(* production loop per node, and a user who puts transfers of 10 into the     *)
(* mempool of node 1.  No timeout task runs.  Every handler runs to its end   *)
(* before another starts: none of its awaits suspends.                        *)

MaxClusterTxs == 2

ClusterNodes == {1, 2}
ClusterKey(i) == <<K1, K2>>[i]
UserKey == Key("user")
Recipient == address_from_pubkey(Key("recipient"))

\* the transfers of the user, signed, with max_fee 1 and max_priority_fee 0
ClusterTx(nonce) ==
    LET unsigned == [chain_id |-> "kova-devnet", nonce |-> nonce, max_fee |-> Some(1),
                     max_priority_fee |-> Some(0), gas_price |-> None,
                     payload |-> Transfer(Recipient, 10), public_key |-> UserKey,
                     signature |-> BadSignature]
    IN [unsigned EXCEPT !.signature = sign_bytes(UserKey, tx_signing_bytes(unsigned))]

ClusterCtx == from_genesis(GenesisOf("cluster")).ctx

\* create_node_with: the node of a key pair over its own copy of the genesis
\* state; the engine over the validators sorted by owner.  The owner of
\* "node-1" (8bc0f93f...) sorts before the owner of "node-2" (ee724ac0...).
ClusterNode(i) ==
    LET g == from_genesis(GenesisOf("cluster"))
        v1 == g.store.validators[validator_id_from_pubkey(K1)]
        v2 == g.store.validators[validator_id_from_pubkey(K2)]
    IN [node |-> [IdleNode EXCEPT !.local_validator = <<v1, v2>>[i]],
        engine |-> HotStuffEngine_new(<<v1, v2>>),
        store |-> g.store,
        domains |-> DomainRuntime_new,
        inbox |-> <<>>,
        commits |-> <<>>]

InitCluster ==
    /\ cluster = [nodes |-> [i \in ClusterNodes |-> ClusterNode(i)], submitted |-> 0]
    /\ engine = HotStuffEngine_new(<<>>)
    /\ last = Call("new", None, TRUE)
    /\ ops = 0
    /\ honest_stake = TRUE
    /\ workload = "none"
    /\ exec_ctx = None
    /\ state_store = ChainState_default
    /\ domain_runtime = DomainRuntime_new
    /\ chain_height = 0
    /\ clock = 0
    /\ run = IdleRun
    /\ clean = TRUE
    /\ txs_done = 0
    /\ unbond_requested = [a \in Addresses |-> 0]
    /\ unbond_credited = [a \in Addresses |-> 0]
    /\ peer = IdlePeer
    /\ node = IdleNode
    /\ history = IdleHistory
    /\ tasks = IdleTasks
    /\ da_layer = IdleDa
    /\ applying = IdleApplying

broadcast_to_nobody(nodes, msg) == nodes

\* LocalBus::broadcast: every receiver of the channel, the sender's own
\* included, gets the message after the ones sent before
broadcast(nodes, msg) ==
    [i \in DOMAIN nodes |-> [nodes[i] EXCEPT !.inbox = Append(@, msg)]]

\* execute_and_record of a node of the cluster on a block
ClusterExecutions(cn, n, block) ==
    UNION {{execute_and_record_with(n, cn.store, cn.domains, block, result) :
               result \in {commit(staged, orders) :
                              orders \in IterationOrders(staged.store)}} :
           staged \in {apply_block_stages(ClusterCtx, cn.store, cn.domains, block,
                           [i \in 1..Len(block.transactions) |-> NoUuid], 0)}}

\* the node after execute_and_record returned r, its engine being e
Executes(cn, r, e) ==
    [cn EXCEPT !.node = r.node, !.store = r.store, !.domains = r.domains, !.engine = e]

\* the node drains its commit queue
Drains(cn, e) ==
    [cn EXCEPT !.engine = [e EXCEPT !.commit_queue = <<>>],
               !.commits = @ \o e.commit_queue]

ClusterVote(i, cn, block_id, view) ==
    [block_id |-> block_id, view |-> view, voter |-> cn.node.local_validator,
     signature |-> sign_vote(block_id, view, ClusterKey(i))]

\* the user pushes the next transfer on the mempool of node 1
ClientSubmit ==
    /\ cluster.submitted < MaxClusterTxs
    /\ cluster' = [cluster EXCEPT
          !.submitted = @ + 1,
          !.nodes = [@ EXCEPT ![1] =
                        [@ EXCEPT !.node =
                            [@ EXCEPT !.mempool = Append(@, ClusterTx(cluster.submitted))]]]]
    /\ UNCHANGED <<consensusVars, runtimeVars, peer, nodeVars, tasks, da_layer, applying>>

\* the cluster after node i produced: it executed r, proposed, voted for the
\* id execute_and_record returned, in the view it read before, and drained
Produced(i, cn, r, view, proposal, proposed) ==
    LET own == ClusterVote(i, cn, r.block_id, view)
        voted == vote(proposed.e, own)
        nodes == [cluster.nodes EXCEPT ![i] = Drains(Executes(cn, r, voted.e), voted.e)]
    IN broadcast(broadcast(nodes, [kind |-> "Propose", proposal |-> proposal]),
                 [kind |-> "Vote", vote |-> own])

\* one turn of the loop of spawn_block_production of node i
ProductionTick(i) ==
    /\ \E cn \in {cluster.nodes[i]} :
       \E leader \in {leader_for_view(cn.engine, cn.engine.view)} :
          IF (leader # None /\ leader[1].id # cn.node.local_validator.id)
             \/ cn.node.mempool = <<>>
          THEN UNCHANGED cluster
          ELSE
          \E block \in {build_block(cn.node, cn.engine, ClusterCtx)} :
          \E r \in ClusterExecutions(cn, [cn.node EXCEPT !.mempool = <<>>], block) :
          \E proposal \in {[block |-> r.sealed, public_key |-> ClusterKey(i),
                            signature |-> sign_proposal(r.sealed, ClusterKey(i))]} :
          \E proposed \in {propose(cn.engine, proposal)} :
             cluster' = [cluster EXCEPT !.nodes =
                IF ~r.ok \/ ~proposed.ok
                THEN [@ EXCEPT ![i] = Executes(cn, r, cn.engine)]
                ELSE Produced(i, cn, r, cn.engine.view, proposal, proposed)]
    /\ UNCHANGED <<consensusVars, runtimeVars, peer, nodeVars, tasks, da_layer, applying>>

\* handle_message of node i on a proposal that passed verify_consensus_message
HandlePropose(i, cn, proposal) ==
    \E proposed \in {propose(cn.engine, proposal)} :
       IF ~proposed.ok THEN cluster' = [cluster EXCEPT !.nodes = [@ EXCEPT ![i] = cn]]
       ELSE
       \E r \in ClusterExecutions(cn, cn.node, proposal.block) :
          IF ~r.ok
          THEN cluster' = [cluster EXCEPT !.nodes =
                              [@ EXCEPT ![i] = Executes(cn, r, proposed.e)]]
          ELSE
          \E own \in {ClusterVote(i, cn, hash_block(proposal.block),
                                  proposal.block.header.consensus_metadata.view)} :
          \E voted \in {vote(proposed.e, own)} :
             cluster' = [cluster EXCEPT !.nodes =
                broadcast([@ EXCEPT ![i] = Drains(Executes(cn, r, voted.e), voted.e)],
                          [kind |-> "Vote", vote |-> own])]

\* the listener of node i takes the next message of its receiver and runs
\* handle_message on it
Listen(i) ==
    /\ cluster.nodes[i].inbox # <<>>
    /\ \E msg \in {Head(cluster.nodes[i].inbox)} :
       \E cn \in {[cluster.nodes[i] EXCEPT !.inbox = Tail(@)]} :
          IF ~verify_consensus_message(cn.engine, msg)
          THEN cluster' = [cluster EXCEPT !.nodes = [@ EXCEPT ![i] = cn]]
          ELSE
          CASE msg.kind = "Propose" -> HandlePropose(i, cn, msg.proposal)
            [] msg.kind = "Vote" ->
                  cluster' = [cluster EXCEPT !.nodes =
                     [@ EXCEPT ![i] = Drains(cn, vote(cn.engine, msg.vote).e)]]
            [] msg.kind = "Timeout" ->
                  cluster' = [cluster EXCEPT !.nodes =
                     [@ EXCEPT ![i] = Drains(cn, on_timeout(cn.engine, msg.view).e)]]
    /\ UNCHANGED <<consensusVars, runtimeVars, peer, nodeVars, tasks, da_layer, applying>>

NextCluster ==
    \/ ClientSubmit
    \/ \E i \in ClusterNodes : ProductionTick(i)
    \/ \E i \in ClusterNodes : Listen(i)

SpecCluster == InitCluster /\ [][NextCluster]_vars

\* the interval of every production loop keeps ticking and every listener
\* keeps receiving
SpecClusterFair ==
    /\ SpecCluster
    /\ \A i \in ClusterNodes : WF_vars(ProductionTick(i))
    /\ \A i \in ClusterNodes : WF_vars(Listen(i))

----------------------------------------------------------------------------
(* protocol/node: the production task and the inbound listener of one node,   *)
(* each in execute_and_record on a block of its own at the same time.  The    *)
(* tasks are spawned on the multi-threaded runtime of tokio::main and share    *)
(* the InMemoryStateStore of the node, whose every method takes the mutex for *)
(* one read or one write; a step below is one such method call of apply_tx on *)
(* a Transfer, with the statements up to the next one.  The chain is that of  *)
(* the node workload: nothing is unbonding and the supply is 0, so that       *)
(* process_unbondings and apply_inflation_rewards read the chain once and     *)
(* write nothing.                                                              *)

ApplyTasks == {"production", "listener"}

ApplyCtx == from_genesis(GenesisOf("node")).ctx
ApplyGenesis == from_genesis(GenesisOf("node")).store

\* the transfers the two blocks are made of: of both funded keys, with and
\* without a fee, to accounts that exist and to one that does not
ApplyTxs ==
    {MakeTx(K1, 0, None, Transfer(A2, 1)), MakeTx(K1, 0, Free, Transfer(A3, 3)),
     MakeTx(K1, 1, Free, Transfer(A2, 1)), MakeTx(K2, 0, Free, Transfer(A3, 1)),
     MakeTx(K2, 0, Free, Transfer(A1, 2))}

\* the block of a task: the one build_block made for the production task,
\* the one a peer proposed for the listener
ApplyBlockOf(t, tx) ==
    [BlockOf(0, <<tx>>) EXCEPT !.header.proposer_id = IF t = "production" THEN A1 ELSE A2]

InitApply ==
    /\ \E txs \in [ApplyTasks -> ApplyTxs] :
          /\ txs["production"] # txs["listener"]
          /\ applying = [store |-> ApplyGenesis,
                         pc |-> [t \in ApplyTasks |-> "get_sender"],
                         tx |-> txs,
                         sender_account |-> [t \in ApplyTasks |-> default_account(A1)],
                         to_account |-> [t \in ApplyTasks |-> default_account(A1)],
                         chain |-> [t \in ApplyTasks |-> ApplyGenesis]]
    /\ engine = HotStuffEngine_new(<<>>)
    /\ last = Call("new", None, TRUE)
    /\ ops = 0
    /\ honest_stake = TRUE
    /\ workload = "none"
    /\ exec_ctx = None
    /\ state_store = ChainState_default
    /\ domain_runtime = DomainRuntime_new
    /\ chain_height = 0
    /\ clock = 0
    /\ run = IdleRun
    /\ clean = TRUE
    /\ txs_done = 0
    /\ unbond_requested = [a \in Addresses |-> 0]
    /\ unbond_credited = [a \in Addresses |-> 0]
    /\ peer = IdlePeer
    /\ node = IdleNode
    /\ history = IdleHistory
    /\ tasks = IdleTasks
    /\ cluster = IdleCluster
    /\ da_layer = IdleDa

ApplyUnchanged ==
    UNCHANGED <<consensusVars, runtimeVars, peer, nodeVars, tasks, cluster, da_layer>>

\* the gas fee apply_tx computes for the transaction of task t
ApplyFee(t) ==
    gas_cost(applying.tx[t].payload) * effective_gas_price(applying.tx[t], ApplyCtx.base_fee)

\* task t moves on to the statement at pc
Goes(t, pc) == [applying EXCEPT !.pc = [@ EXCEPT ![t] = pc]]

\* apply_tx: get_account of the sender and the check of the nonce
GetSender(t) ==
    /\ applying.pc[t] = "get_sender"
    /\ LET account == get_account(applying.store,
                                  verify_tx_signature(applying.tx[t])[1])
       IN applying' =
             [Goes(t, IF account.nonce # applying.tx[t].nonce
                      THEN "failed" ELSE "get_chain_state")
                 EXCEPT !.sender_account = [@ EXCEPT ![t] = account]]
    /\ ApplyUnchanged

\* apply_tx: get_chain_state, the snapshot the arm works on
GetChainState(t) ==
    /\ applying.pc[t] = "get_chain_state"
    /\ applying' = [Goes(t, "put_sender") EXCEPT !.chain = [@ EXCEPT ![t] = applying.store]]
    /\ ApplyUnchanged

\* the Transfer arm: ensure_funds and put_account of the debited sender
PutSender(t) ==
    /\ applying.pc[t] = "put_sender"
    /\ LET p == applying.tx[t].payload
           account == applying.sender_account[t]
       IN applying' =
             IF ~ensure_funds(account, p.amount, ApplyFee(t)) THEN Goes(t, "failed")
             ELSE [Goes(t, "get_recipient") EXCEPT !.store =
                      put_account(@, [account EXCEPT
                                         !.balance_x = @ - (p.amount + ApplyFee(t)),
                                         !.nonce = @ + 1])]
    /\ ApplyUnchanged

\* the Transfer arm: get_account of the recipient
GetRecipient(t) ==
    /\ applying.pc[t] = "get_recipient"
    /\ applying' = [Goes(t, "put_recipient") EXCEPT !.to_account =
                       [@ EXCEPT ![t] = get_account(applying.store,
                                                    applying.tx[t].payload.to)]]
    /\ ApplyUnchanged

\* the Transfer arm: put_account of the credited recipient
PutRecipient(t) ==
    /\ applying.pc[t] = "put_recipient"
    /\ LET credited == checked_add(applying.to_account[t].balance_x,
                                   applying.tx[t].payload.amount)
       IN applying' =
             IF credited = None THEN Goes(t, "failed")
             ELSE [Goes(t, "sync") EXCEPT !.store =
                      put_account(@, [applying.to_account[t] EXCEPT
                                         !.balance_x = credited[1]])]
    /\ ApplyUnchanged

\* the Transfer arm: route_gas_fee on the snapshot, then
\* sync_accounts_from_store, which reads the chain state for its accounts
SyncAccounts(t) ==
    /\ applying.pc[t] = "sync"
    /\ applying' = [Goes(t, "put_chain_state") EXCEPT !.chain = [@ EXCEPT ![t] =
                       [route_gas_fee(applying.chain[t], ApplyFee(t), ApplyCtx.fee_split)
                           EXCEPT !.accounts = applying.store.accounts]]]
    /\ ApplyUnchanged

\* the Transfer arm: put_chain_state of the snapshot
PutChainState(t) ==
    /\ applying.pc[t] = "put_chain_state"
    /\ applying' = [Goes(t, "unbondings") EXCEPT !.store = applying.chain[t]]
    /\ ApplyUnchanged

\* apply_block after its only transaction: process_unbondings
ProcessUnbondings(t) ==
    /\ applying.pc[t] = "unbondings"
    /\ \E r \in {process_unbondings(applying.store,
                     ApplyBlockOf(t, applying.tx[t]).header.height)} :
          applying' = [Goes(t, IF r.ok THEN "rewards" ELSE "failed")
                          EXCEPT !.store = r.store]
    /\ ApplyUnchanged

\* apply_block: apply_inflation_rewards, and the return of execute_and_record
InflationRewards(t) ==
    /\ applying.pc[t] = "rewards"
    /\ \E r \in {apply_inflation_rewards(ApplyCtx, applying.store,
                                         ApplyBlockOf(t, applying.tx[t]))} :
          applying' = [Goes(t, IF r.ok THEN "done" ELSE "failed")
                          EXCEPT !.store = r.store]
    /\ ApplyUnchanged

ApplyStep(t) ==
    \/ GetSender(t)
    \/ GetChainState(t)
    \/ PutSender(t)
    \/ GetRecipient(t)
    \/ PutRecipient(t)
    \/ SyncAccounts(t)
    \/ PutChainState(t)
    \/ ProcessUnbondings(t)
    \/ InflationRewards(t)

NextApply == \E t \in ApplyTasks : ApplyStep(t)

SpecApply == InitApply /\ [][NextApply]_vars

----------------------------------------------------------------------------
(* protocol/da: the in-memory data availability layer and its client *)

\* DAConfig::default; shard_size is 1024 there and ShardSize bytes here
DataShards == 4
ParityShards == 2
ShardSize == 1

\* a blob fills at most MaxExtraShards shards beyond data_shards, its bytes
\* are 1..MaxByte (the zero bytes of a shard are its padding, and all the
\* bytes of the shards of the empty blob), the layer holds at most MaxBlobs
\* blobs and sample is asked for at most MaxSampleArg samples
MaxExtraShards == 1
MaxByte == 1
MaxBlobs == 1
MaxSampleArg == 2

MaxBlobLen == ShardSize * (DataShards + MaxExtraShards)

Blobs == UNION {[1..n -> 1..MaxByte] : n \in 0..MaxBlobLen}

DaDomains == {"l1"}

\* format!("{}-{}", domain_id, Uuid::new_v4()): the n-th blob gets the n-th
\* fresh uuid
BlobId(domain_id, n) == <<domain_id, n>>

BlobIds == {BlobId(d, n) : d \in DaDomains, n \in 1..(MaxBlobs + 1)}

\* blake3 over the bytes of a shard, and over the 64 bytes of two digests
blake3(bytes) == <<"blake3", bytes>>

blake3_concat(left, right) == <<"blake3_pair", <<left, right>>>>

\* [b; 32], an array no digest of the model equals
Bytes32(b) == <<"bytes32", b>>

RECURSIVE xor_bits(_, _, _)
xor_bits(a, b, n) ==
    IF n = 0 THEN 0
    ELSE ((a + b) % 2) + 2 * xor_bits(a \div 2, b \div 2, n - 1)

\* parity[i] ^= byte, on u8
xor(a, b) == xor_bits(a, b, 8)

RECURSIVE xor_fold(_, _, _)
xor_fold(data, i, k) ==
    IF k > Len(data) THEN 0 ELSE xor(data[k][i], xor_fold(data, i, k + 1))

\* blob_bytes.chunks(shard_size), each chunk copied into a zeroed shard
chunks(blob_bytes) ==
    [c \in 1..((Len(blob_bytes) + ShardSize - 1) \div ShardSize) |->
        [i \in 1..ShardSize |->
            IF (c - 1) * ShardSize + i <= Len(blob_bytes)
            THEN blob_bytes[(c - 1) * ShardSize + i] ELSE 0]]

\* one level of the tree up: pairs hashed together, an odd last node with itself
next_level_promoting_odd(level) ==
    [i \in 1..((Len(level) + 1) \div 2) |->
        IF 2 * i <= Len(level)
        THEN blake3_concat(level[2 * i - 1], level[2 * i])
        ELSE level[2 * i - 1]]
next_level(level) ==
    [i \in 1..((Len(level) + 1) \div 2) |->
        IF 2 * i <= Len(level)
        THEN blake3_concat(level[2 * i - 1], level[2 * i])
        ELSE blake3_concat(level[2 * i - 1], level[2 * i - 1])]

RECURSIVE merkle_root(_)
merkle_root(leaves) ==
    IF Len(leaves) = 0 THEN ZeroHash
    ELSE IF Len(leaves) = 1 THEN leaves[1]
    ELSE merkle_root(next_level(leaves))

\* the loop of merkle_proof over a level, idx counted from 0
RECURSIVE merkle_path_from(_, _)
merkle_path_from(level, idx) ==
    IF Len(level) <= 1 THEN <<>>
    ELSE LET sibling == IF idx % 2 = 0 THEN idx + 1 ELSE idx - 1
             entry == IF sibling < Len(level) THEN level[sibling + 1] ELSE level[idx + 1]
         IN  <<entry>> \o merkle_path_from(next_level(level), idx \div 2)

merkle_proof(shards, index) ==
    merkle_path_from([i \in 1..Len(shards) |-> blake3(shards[i])], index)

\* the fold of verify_merkle_path from the k-th sibling on
RECURSIVE fold_path(_, _, _, _)
fold_path(hash, path, k, index) ==
    IF k > Len(path) THEN hash
    ELSE fold_path(IF index % 2 = 0 THEN blake3_concat(hash, path[k])
                   ELSE blake3_concat(path[k], hash),
                   path, k + 1, index \div 2)

verify_merkle_path_any_prefix(leaf, path, root, index) ==
    \E n \in 0..Len(path) : fold_path(leaf, SubSeq(path, 1, n), 1, index) = root
verify_merkle_path(leaf, path, root, index) ==
    fold_path(leaf, path, 1, index) = root

verify_da_proof(proof) ==
    \A s \in 1..Len(proof.samples) :
        verify_merkle_path(proof.samples[s].shard_hash, proof.samples[s].merkle_path,
                           proof.commitment.root, proof.samples[s].shard_index)

shard_blob(blob_bytes) ==
    LET chunked == chunks(blob_bytes)
        data_shards ==
            chunked \o [k \in 1..(DataShards - Len(chunked)) |-> [i \in 1..ShardSize |-> 0]]
        parity == [i \in 1..ShardSize |-> xor_fold(data_shards, i, 1)]
        shards == data_shards \o [k \in 1..ParityShards |-> parity]
        leaf_hashes == [i \in 1..Len(shards) |-> blake3(shards[i])]
    IN  [shards |-> shards,
         commitment |-> [root |-> merkle_root(leaf_hashes),
                         total_shards |-> Len(leaf_hashes),
                         data_shards |-> DataShards,
                         parity_shards |-> ParityShards,
                         shard_size |-> ShardSize]]

\* the proofs derive_sample_proofs builds for the indices the generator draws
sample_proofs(shards, draws) ==
    [k \in 1..Len(draws) |->
        [shard_index |-> draws[k],
         shard_hash |-> blake3(shards[draws[k] + 1]),
         merkle_path |-> merkle_proof(shards, draws[k])]]

\* derive_sample_proofs: the indices StdRng draws in 0..shards.len() are not
\* computed here, every sequence of draws is an outcome
derive_sample_proofs(shards, samples) ==
    IF Len(shards) = 0 THEN {<<>>}
    ELSE {sample_proofs(shards, draws) :
             draws \in [1..Min(samples, Len(shards)) -> 0..(Len(shards) - 1)]}

\* the record of a call; the argument and the result carry the operation, so
\* that two records never compare values of different kinds
DaCall(op, arg, ok, ret) ==
    [op |-> op, arg |-> <<op, arg>>, ok |-> ok, ret |-> <<op, ok, ret>>]

DaArg(call) == call.arg[2]

DaRet(call) == call.ret[3]

\* InMemoryDA::new, and a client that holds no proof; checked is the number of
\* sample proofs the last call of sample went through
InitDa ==
    /\ da_layer = [inner |-> <<>>, meta |-> <<>>, shards |-> <<>>, commitments |-> <<>>,
                   held |-> None, checked |-> 0,
                   last |-> DaCall("new", None, TRUE, None)]
    /\ engine = HotStuffEngine_new(<<>>)
    /\ last = Call("new", None, TRUE)
    /\ ops = 0
    /\ honest_stake = TRUE
    /\ workload = "none"
    /\ exec_ctx = None
    /\ state_store = ChainState_default
    /\ domain_runtime = DomainRuntime_new
    /\ chain_height = 0
    /\ clock = 0
    /\ run = IdleRun
    /\ clean = TRUE
    /\ txs_done = 0
    /\ unbond_requested = [a \in Addresses |-> 0]
    /\ unbond_credited = [a \in Addresses |-> 0]
    /\ peer = IdlePeer
    /\ node = IdleNode
    /\ history = IdleHistory
    /\ tasks = IdleTasks
    /\ cluster = IdleCluster
    /\ applying = IdleApplying

DaUnchanged == UNCHANGED <<consensusVars, runtimeVars, peer, nodeVars, tasks, cluster, applying>>

SubmitBlob ==
    \E domain_id \in DaDomains, blob_bytes \in Blobs :
        /\ da_layer # IdleDa
        /\ Cardinality(DOMAIN da_layer.inner) < MaxBlobs
        /\ \E sharded \in {shard_blob(blob_bytes)} :
            LET id == BlobId(domain_id, Cardinality(DOMAIN da_layer.inner) + 1)
                blob_ref == [id |-> id, domain_id |-> domain_id,
                             size_bytes |-> Len(blob_bytes),
                             commitment |-> sharded.commitment]
            IN  da_layer' = [da_layer EXCEPT
                                !.inner = MapPut(@, id, blob_bytes),
                                !.shards = MapPut(@, id, sharded.shards),
                                !.commitments = MapPut(@, id, sharded.commitment),
                                !.meta = MapPut(@, id, blob_ref),
                                !.last = DaCall("submit_blob", blob_bytes, TRUE, blob_ref)]
        /\ DaUnchanged

\* prove_blob_availability, the proof going to the client
ProveBlobAvailability ==
    \E blob_id \in BlobIds :
        /\ da_layer # IdleDa
        /\ da_layer.held = None
        /\ IF blob_id \notin DOMAIN da_layer.shards
           THEN da_layer' = [da_layer EXCEPT
                                !.last = DaCall("prove_blob_availability", blob_id, FALSE,
                                                "blob not found")]
           ELSE LET shards == da_layer.shards[blob_id]
                    commitment == da_layer.commitments[blob_id]
                    sample_count == Min(Max(commitment.data_shards, 1), Len(shards))
                IN  \E proofs \in derive_sample_proofs(shards, sample_count) :
                        da_layer' = [da_layer EXCEPT
                            !.held = [blob_id |-> blob_id, commitment |-> commitment,
                                      samples |-> proofs],
                            !.last = DaCall("prove_blob_availability", blob_id, TRUE,
                                            Len(proofs))]
        /\ DaUnchanged

\* DASampler::sample
Sample ==
    \E blob_id \in BlobIds, samples \in 0..MaxSampleArg :
        /\ da_layer # IdleDa
        /\ da_layer.held = None
        /\ IF blob_id \notin DOMAIN da_layer.shards
           THEN da_layer' = [da_layer EXCEPT
                                !.last = DaCall("sample", <<blob_id, samples>>, FALSE,
                                                "blob not found")]
           ELSE LET shards == da_layer.shards[blob_id]
                    commitment == da_layer.commitments[blob_id]
                IN  \E proofs \in derive_sample_proofs(shards, Max(samples, 1)) :
                        da_layer' = [da_layer EXCEPT !.checked = Len(proofs), !.last =
                            IF \A s \in 1..Len(proofs) :
                                   verify_merkle_path(proofs[s].shard_hash,
                                                      proofs[s].merkle_path,
                                                      commitment.root, proofs[s].shard_index)
                            THEN DaCall("sample", <<blob_id, samples>>, TRUE, TRUE)
                            ELSE DaCall("sample", <<blob_id, samples>>, FALSE,
                                        "invalid sampling proof")]
        /\ DaUnchanged

\* DAProvider::get_blob
GetBlob ==
    \E blob_id \in BlobIds :
        /\ da_layer # IdleDa
        /\ da_layer.held = None
        /\ da_layer' = [da_layer EXCEPT !.last =
               IF blob_id \in DOMAIN da_layer.inner
               THEN DaCall("get_blob", blob_id, TRUE, da_layer.inner[blob_id])
               ELSE DaCall("get_blob", blob_id, FALSE, "blob not found")]
        /\ DaUnchanged

\* DAProvider::get_commitment
GetCommitment ==
    \E blob_id \in BlobIds :
        /\ da_layer # IdleDa
        /\ da_layer.held = None
        /\ da_layer' = [da_layer EXCEPT !.last =
               IF blob_id \in DOMAIN da_layer.commitments
               THEN DaCall("get_commitment", blob_id, TRUE, da_layer.commitments[blob_id])
               ELSE DaCall("get_commitment", blob_id, FALSE, "commitment missing")]
        /\ DaUnchanged

\* the values a tampering client writes: the arrays of the tests and a digest
\* of the tree
TamperHashes(proof) == {Bytes32(9), Bytes32(7), proof.commitment.root}

WithSample(proof, s, sample) == [proof EXCEPT !.samples = [@ EXCEPT ![s] = sample]]

\* the proofs a client makes of the proof it holds by one change
Tamperings(proof) ==
    {[kind |-> "root", proof |-> [proof EXCEPT !.commitment = [@ EXCEPT !.root = v]]] :
        v \in TamperHashes(proof) \ {proof.commitment.root}}
    \cup UNION {
        {[kind |-> "shard_hash",
          proof |-> WithSample(proof, s, [proof.samples[s] EXCEPT !.shard_hash = v])] :
            v \in TamperHashes(proof) \ {proof.samples[s].shard_hash}}
        \cup {[kind |-> "append",
               proof |-> WithSample(proof, s,
                             [proof.samples[s] EXCEPT !.merkle_path = Append(@, v)])] :
            v \in TamperHashes(proof)}
        \cup UNION {
            {[kind |-> "sibling",
              proof |-> WithSample(proof, s,
                            [proof.samples[s] EXCEPT !.merkle_path = [@ EXCEPT ![k] = v]])] :
                v \in TamperHashes(proof) \ {proof.samples[s].merkle_path[k]}} :
            k \in 1..Len(proof.samples[s].merkle_path)} :
        s \in 1..Len(proof.samples)}

\* the client verifies the proof it holds, as it got it or after one change
VerifyDaProof ==
    /\ da_layer # IdleDa
    /\ da_layer.held # None
    /\ \E given \in {[kind |-> "none", proof |-> da_layer.held]} \cup Tamperings(da_layer.held) :
        da_layer' = [da_layer EXCEPT
                        !.held = None,
                        !.last = DaCall("verify_da_proof", <<given.kind, given.proof.blob_id>>,
                                        TRUE, verify_da_proof(given.proof))]
    /\ DaUnchanged

NextDa ==
    \/ SubmitBlob
    \/ ProveBlobAvailability
    \/ Sample
    \/ GetBlob
    \/ GetCommitment
    \/ VerifyDaProof

SpecDa == InitDa /\ [][NextDa]_vars

----------------------------------------------------------------------------
(* Properties of the consensus engine *)

\* the stake the validator set registers for the voters of a tally
RegisteredStake(e, voters) ==
    SumSeq([i \in 1..Len(e.validators) |->
               IF Contains(voters, e.validators[i].id) THEN e.validators[i].stake ELSE 0])

RegisteredTotal(e) == SumSeq([i \in 1..Len(e.validators) |-> e.validators[i].stake])

\* the step is a vote call that recorded a new voter
VoteRecorded == last'.op = "vote" /\ last'.ok /\ engine' # engine

VotePushed ==
    engine'.commit_queue = Append(engine.commit_queue, last'.arg.block_id)

\* C1 (quorum exactness): while every recorded voter presented its registered
\* record, a vote call that records a new voter appends block_id to the commit
\* queue if and only if the registered stake of the distinct voters recorded
\* for (block_id, view) is at least floor(2*total_stake/3)+1, and otherwise
\* leaves the queue as it was; with stakes 10/15/25 that is exactly at 34.
C1_QuorumExactness ==
    [][ (VoteRecorded /\ honest_stake') =>
          LET key == <<last'.arg.block_id, last'.arg.view>>
              sum == RegisteredStake(engine', engine'.votes[key].voters)
              reached == sum >= (2 * RegisteredTotal(engine')) \div 3 + 1
          IN /\ reached <=> VotePushed
             /\ ~reached => engine'.commit_queue = engine.commit_queue
             /\ RegisteredTotal(engine') = 50 => (reached <=> sum >= 34)
      ]_vars

\* a vote of registered validators with stakes 10/15/25 has just completed a
\* quorum and its block id is the newest entry of the commit queue
C1_Witness ==
    /\ honest_stake
    /\ last.op = "vote" /\ last.ok
    /\ engine.total_stake = 50
    /\ <<last.arg.block_id, last.arg.view>> \in DOMAIN engine.votes
    /\ LET t == engine.votes[<<last.arg.block_id, last.arg.view>>] IN
          /\ t.voters[Len(t.voters)] = last.arg.voter.id
          /\ RegisteredStake(engine, t.voters) >= 34
    /\ engine.commit_queue # <<>>
    /\ engine.commit_queue[Len(engine.commit_queue)] = last.arg.block_id

\* the tally of a key (block_id, view) has reached the quorum threshold
Certified(e, key) == e.votes[key].stake >= quorum_threshold(e)

\* C31: at most one block per view is certified, also when every voter
\* presents its registered record: no two tallies of the same view and of
\* different block ids reach the quorum threshold
C31_OneBlockPerView ==
    honest_stake =>
        \A k1, k2 \in DOMAIN engine.votes :
            (k1[2] = k2[2] /\ Certified(engine, k1) /\ Certified(engine, k2)) => k1 = k2

\* C32: the stake a vote adds to a tally is the stake the validator set
\* records for the voter id, whatever stake the record inside the vote
\* carries
C32_RegisteredStakeTallied ==
    \A key \in DOMAIN engine.votes :
        engine.votes[key].stake = RegisteredStake(engine, engine.votes[key].voters)

\* C34: a vote call pushes block_id on the commit queue only when the tally
\* of (block_id, view) was below the quorum threshold before the call, so a
\* certified block is enqueued once per view
C34_EnqueuedOnce ==
    [][ (VoteRecorded /\ honest_stake' /\ VotePushed) =>
          LET key == <<last'.arg.block_id, last'.arg.view>> IN
          key \in DOMAIN engine.votes => ~Certified(engine, key)
      ]_vars

\* the cases of an invalid vote: unknown voter id, a pubkey other than the
\* registered one, a signature that is not the voter key's over (block_id, view)
InvalidVote(vt, e) ==
    \/ \A i \in 1..Len(e.validators) : e.validators[i].id # vt.voter.id
    \/ \E i \in 1..Len(e.validators) :
          e.validators[i].id = vt.voter.id /\ e.validators[i].pubkey # vt.voter.pubkey
    \/ vt.signature # sign_bytes(vt.voter.pubkey, <<"vote", <<vt.block_id, vt.view>>>>)

\* the cases of an invalid proposal: the key does not hash to the proposer,
\* the signature is not the key's over the block hash
InvalidProposal(p) ==
    \/ <<"addr", p.public_key>> # p.block.header.proposer_id
    \/ p.signature # sign_bytes(p.public_key, <<"blk", p.block>>)

\* C10 (consensus failure semantics): an invalid vote or proposal is rejected
\* with an error, and a rejected vote or proposal leaves the whole engine state
\* unchanged.
C10_FailureSemantics ==
    [][ /\ (last'.op = "vote" /\ InvalidVote(last'.arg, engine)) => ~last'.ok
        /\ (last'.op = "propose" /\ InvalidProposal(last'.arg)) => ~last'.ok
        /\ (last'.op \in {"vote", "propose"} /\ ~last'.ok) => engine' = engine
      ]_vars

\* an invalid vote has just been rejected by an engine that already holds
\* blocks, tallies and a commit-queue entry
C10_Witness ==
    /\ last.op = "vote" /\ ~last.ok
    /\ InvalidVote(last.arg, engine)
    /\ engine.votes # EmptyMap
    /\ engine.block_tree # EmptyMap
    /\ engine.commit_queue # <<>>

\* the vote is valid and its voter id is in the tally of its (block_id, view)
DuplicateVote(vt, e) ==
    /\ verify_vote(vt, e.validators)
    /\ <<vt.block_id, vt.view>> \in DOMAIN e.votes
    /\ Contains(e.votes[<<vt.block_id, vt.view>>].voters, vt.voter.id)

\* C11 (duplicate votes are idempotent): a valid vote by a voter id that the
\* tally of (block_id, view) already holds returns Ok and leaves the tally's
\* stake, voters and signatures, the quorum certificates and the commit queue
\* as they were.
C11_DuplicateVoteIdempotent ==
    [][ (last'.op = "vote" /\ DuplicateVote(last'.arg, engine)) =>
          /\ last'.ok
          /\ engine'.votes = engine.votes
          /\ engine'.pending_qc = engine.pending_qc
          /\ engine'.locked_qc = engine.locked_qc
          /\ engine'.commit_queue = engine.commit_queue
          /\ engine' = engine
      ]_vars

\* a validator has just voted again, with its registered record, for a
\* (block_id, view) whose tally holds its id with the stake its first vote
\* presented, which was another one
C11_Witness ==
    /\ last.op = "vote" /\ last.ok
    /\ DuplicateVote(last.arg, engine)
    /\ LET t == engine.votes[<<last.arg.block_id, last.arg.view>>] IN
          /\ t.voters = <<last.arg.voter.id>>
          /\ t.stake # last.arg.voter.stake

\* a valid vote for a view below the current one by a voter not yet counted
LateVote(vt, e) ==
    /\ verify_vote(vt, e.validators)
    /\ vt.view < e.view
    /\ ~DuplicateVote(vt, e)

\* C12 (late votes survive view changes): a proposal or a timeout leaves
\* every vote tally and the commit queue as they were; a valid first vote of
\* a voter for (block_id, v) with v below the current view is added to the
\* tally of (block_id, v), whose stake grows by the stake the vote presents
\* while every other tally stays; when the stake so reached is at least
\* (2 * total_stake) / 3 + 1 the block_id is pushed on the commit queue, and
\* pop_commit returns the head of the queue, which is that block_id as soon
\* as the ids pushed before it are drained.
C12_LateVotesSurvive ==
    [][ /\ last'.op \in {"on_timeout", "propose"} =>
              /\ engine'.votes = engine.votes
              /\ engine'.commit_queue = engine.commit_queue
        /\ (last'.op = "vote" /\ LateVote(last'.arg, engine)) =>
              LET vt == last'.arg
                  key == <<vt.block_id, vt.view>>
                  old == MapGetOr(engine.votes, key, VoteTally_default)
              IN
              /\ last'.ok
              /\ key \in DOMAIN engine'.votes
              /\ engine'.votes[key].stake = old.stake + vt.voter.stake
              /\ engine'.votes[key].voters = Append(old.voters, vt.voter.id)
              /\ \A k \in DOMAIN engine.votes \ {key} :
                    k \in DOMAIN engine'.votes /\ engine'.votes[k] = engine.votes[k]
              /\ engine'.votes[key].stake >= (2 * engine.total_stake) \div 3 + 1 =>
                    /\ engine'.commit_queue = Append(engine.commit_queue, vt.block_id)
                    /\ engine.commit_queue = <<>> =>
                          pop_commit(engine').ret = Some(vt.block_id)
        /\ (last'.op = "pop_commit" /\ engine.commit_queue # <<>>) =>
              /\ last'.arg = Some(Head(engine.commit_queue))
              /\ engine'.commit_queue = Tail(engine.commit_queue)
              /\ engine'.votes = engine.votes
      ]_vars

\* votes of two voters for view 0 arrived after the view had advanced and
\* reached the quorum, and the block id is the newest entry of the queue
C12_Witness ==
    /\ last.op = "vote" /\ last.ok
    /\ last.arg.view < engine.view
    /\ <<last.arg.block_id, last.arg.view>> \in DOMAIN engine.votes
    /\ LET t == engine.votes[<<last.arg.block_id, last.arg.view>>] IN
          /\ Len(t.voters) >= 2
          /\ t.voters[Len(t.voters)] = last.arg.voter.id
          /\ t.stake >= quorum_threshold(engine)
    /\ engine.commit_queue # <<>>
    /\ engine.commit_queue[Len(engine.commit_queue)] = last.arg.block_id

\* C14 (view advancement): the view changes only by +1, and only on a
\* proposal that verifies (whether or not its proposer is the leader of the
\* view) or on on_timeout(v) with v the current view; each of these two calls
\* does advance it; on_timeout with another v, a rejected proposal, vote,
\* on_qc, record_slash and pop_commit leave it unchanged; it never decreases.
C14_ViewAdvancement ==
    [][ /\ engine'.view >= engine.view
        /\ engine'.view # engine.view =>
              /\ engine'.view = engine.view + 1
              /\ \/ /\ last'.op = "propose" /\ last'.ok
                    /\ verify_proposal(last'.arg, hash_block(last'.arg.block))
                 \/ last'.op = "on_timeout" /\ last'.arg = engine.view
        /\ (last'.op = "propose"
              /\ verify_proposal(last'.arg, hash_block(last'.arg.block))) =>
              last'.ok /\ engine'.view = engine.view + 1
        /\ (last'.op = "propose"
              /\ ~verify_proposal(last'.arg, hash_block(last'.arg.block))) =>
              ~last'.ok /\ engine'.view = engine.view
        /\ last'.op = "on_timeout" =>
              engine'.view = IF last'.arg = engine.view THEN engine.view + 1
                             ELSE engine.view
        /\ last'.op \in {"vote", "on_qc", "record_slash", "pop_commit"} =>
              engine'.view = engine.view
      ]_vars

\* a verified proposal whose proposer is not the leader of the view it was
\* made in has advanced the view
C14_Witness ==
    /\ last.op = "propose" /\ last.ok
    /\ engine.view >= 1
    /\ leader_for_view(engine, engine.view - 1) # None
    /\ leader_for_view(engine, engine.view - 1)[1].owner
          # last.arg.block.header.proposer_id

\* the stake of the first i validators of the list
CumulativeStake(vals, i) == SumSeq([j \in 1..i |-> vals[j].stake])

\* C13 (leader selection): leader_for_view returns None exactly when the
\* validator list is empty; otherwise it returns a member of the list; when
\* total_stake > 0 the leader is the first validator in stored order whose
\* cumulative stake exceeds view mod total_stake, it has a stake above zero,
\* and over the total_stake consecutive views that start at the view asked
\* each validator leads exactly as many views as it has stake.
C13_LeaderSelection ==
    last.op = "leader_for_view" =>
        LET vals == engine.validators
            total == engine.total_stake
            v == last.arg
            leader == last.ret
        IN
        /\ (leader = None) <=> (vals = <<>>)
        /\ leader # None => \E i \in 1..Len(vals) : vals[i] = leader[1]
        /\ total > 0 =>
              /\ \E i \in 1..Len(vals) :
                    /\ vals[i] = leader[1]
                    /\ CumulativeStake(vals, i) > v % total
                    /\ \A j \in 1..(i - 1) : CumulativeStake(vals, j) <= v % total
              /\ leader[1].stake > 0
              /\ \A i \in 1..Len(vals) :
                    Cardinality({u \in v..(v + total - 1) :
                                    leader_for_view(engine, u) = Some(vals[i])})
                       = vals[i].stake

\* a roster of unequal stakes with a zero-stake validator in it, asked for a
\* view past total_stake, answers with a validator other than the first
C13_Witness ==
    /\ last.op = "leader_for_view"
    /\ engine.total_stake > 0
    /\ last.arg >= engine.total_stake
    /\ \E i \in 1..Len(engine.validators) : engine.validators[i].stake = 0
    /\ \E i \in 1..Len(engine.validators) : engine.validators[i].stake = MaxRosterStake
    /\ last.ret # None
    /\ last.ret[1] # engine.validators[1]

----------------------------------------------------------------------------
(* Properties of the cluster *)

RecipientBalance(i) == get_account(cluster.nodes[i].store, Recipient).balance_x

\* the block as build_block made it, before execute_and_record sealed it
Unsealed(block) ==
    [block EXCEPT !.header.state_root = ZeroHash, !.header.gas_used = 0]

\* the first block the leader built, executed and proposed is on the chain
\* of every node: every node executed it with Ok
FirstBlockExecuted ==
    /\ cluster # IdleCluster
    /\ \A i \in ClusterNodes :
          /\ cluster.nodes[i].node.blocks # <<>>
          /\ cluster.nodes[i].node.blocks[1] = cluster.nodes[1].node.blocks[1]

\* every node has found an id of the first block in its commit queue
FirstBlockCommitted ==
    /\ cluster # IdleCluster
    /\ \A i \in ClusterNodes :
          \E k \in 1..Len(cluster.nodes[i].commits) :
             cluster.nodes[i].commits[k]
                \in {hash_block(cluster.nodes[1].node.blocks[1]),
                     hash_block(Unsealed(cluster.nodes[1].node.blocks[1]))}

\* C17 (quorum liveness): with every validator an honest node and every
\* broadcast message delivered, a block that the leader built, executed and
\* proposed and that every node executed with Ok eventually obtains a quorum
\* certificate, and its id is then found in the commit queue of every node.
C17_QuorumLiveness == FirstBlockExecuted ~> FirstBlockCommitted

TransferSubmitted ==
    /\ cluster # IdleCluster
    /\ Contains(cluster.nodes[1].node.mempool, ClusterTx(0))

Converged ==
    /\ cluster # IdleCluster
    /\ \A i \in ClusterNodes :
          /\ Len(cluster.nodes[i].node.blocks) >= 1
          /\ RecipientBalance(i) = RecipientBalance(1)
          /\ RecipientBalance(i) >= 10

\* C18 (two-node convergence): once the user's transfer of 10 is in the
\* mempool of node 1 then, the production loops and the listeners being
\* scheduled fairly, eventually both nodes have applied at least one block
\* and hold the same balance for the recipient, of at least 10.
C18_TwoNodeConvergence == TransferSubmitted ~> Converged

\* node 2 has received the proposal of node 1 over the bus, executed its
\* block and holds the balance node 1 holds
C18_Witness ==
    /\ Converged
    /\ cluster.nodes[2].node.blocks = cluster.nodes[1].node.blocks
    /\ RecipientBalance(2) = 10
    /\ cluster.nodes[2].store = cluster.nodes[1].store

\* the proposals waiting in the receiver of node i for a block the node holds
\* in its list of blocks: the block has been applied there
Redelivered(i) ==
    {cluster.nodes[i].inbox[k].proposal.block :
        k \in {j \in 1..Len(cluster.nodes[i].inbox) :
                  cluster.nodes[i].inbox[j].kind = "Propose"}}
       \cap {cluster.nodes[i].node.blocks[k] : k \in 1..Len(cluster.nodes[i].node.blocks)}

\* execute_and_record of node i on the block returns from its check of the
\* applied set: Ok, with apply_block not called and the node as it was
SkipsApplied(i, block) ==
    \A r \in ClusterExecutions(cluster.nodes[i], cluster.nodes[i].node, block) :
        r.ok /\ ~r.ran /\ r.node = cluster.nodes[i].node /\ r.store = cluster.nodes[i].store

\* no block is twice in the list of blocks of a node
NoSecondCopy ==
    \A i \in ClusterNodes :
        \A j, k \in 1..Len(cluster.nodes[i].node.blocks) :
            cluster.nodes[i].node.blocks[j] = cluster.nodes[i].node.blocks[k] => j = k

\* C35: a block is applied at most once per node: when a proposal for a block
\* the node has applied is delivered to it again, its own broadcast included,
\* execute_and_record returns from the check of the applied set without
\* running apply_block, and the list of blocks never holds a block twice.
C35_AppliedOnce ==
    cluster # IdleCluster =>
        /\ NoSecondCopy
        /\ \A i \in ClusterNodes : \A block \in Redelivered(i) : SkipsApplied(i, block)

----------------------------------------------------------------------------
(* Properties of the inbound handler *)

\* the step is handle_message on the proposal msg, and the proposal failed:
\* verify_consensus_message or propose refused it, or execute_and_record
\* returned an error
FailedHandling(msg) ==
    IF ~verify_consensus_message(engine, msg)
    THEN UNCHANGED <<engine, node, state_store, domain_runtime, history>>
    ELSE \E proposed \in {propose(engine, msg.proposal)} :
         IF ~proposed.ok
         THEN UNCHANGED <<engine, node, state_store, domain_runtime, history>>
         ELSE \E r \in Executions(node, msg.proposal.block) :
                 /\ ~r.ok
                 /\ Record(r, proposed.e, msg.proposal.block.header.consensus_metadata.view)

Proposals == {msg \in PeerMessages : msg.kind = "Propose"}

\* C24 (failed inbound proposals are dropped without effect): when a proposal
\* from the network fails verification or local execution, the node casts no
\* vote and its consensus state (view, block tree, tallies, commit queue), its
\* chain state and its list of blocks are what they were before the message.
C24_FailedProposalDropped ==
    [][\A msg \in Proposals :
           FailedHandling(msg) =>
               /\ engine' = engine
               /\ state_store' = state_store
               /\ node'.blocks = node.blocks]_vars

----------------------------------------------------------------------------
(* Properties of concurrent block applications *)

\* the chain state after execute_and_record ran on the block of one task and
\* then, from its first statement to its last, on the block of the other
SerialStore(first, second) ==
    LET one == apply_block_stages(ApplyCtx, ApplyGenesis, DomainRuntime_new,
                   ApplyBlockOf(first, applying.tx[first]), <<NoUuid>>, 0)
        two == apply_block_stages(ApplyCtx, one.store, one.domains,
                   ApplyBlockOf(second, applying.tx[second]), <<NoUuid>>, 0)
    IN two.store

\* both tasks have returned from execute_and_record
BothReturned == \A t \in ApplyTasks : applying.pc[t] \in {"done", "failed"}

\* C36: block applications on one node do not interleave: when the
\* production task and the inbound listener have run execute_and_record at
\* the same time for different blocks, the chain state is the one that
\* applying the two blocks one after the other, in one of the two orders,
\* leaves: no update of one application is overwritten by the other.
C36_Serializable ==
    (applying # IdleApplying /\ BothReturned) =>
        applying.store \in {SerialStore("production", "listener"),
                            SerialStore("listener", "production")}

----------------------------------------------------------------------------
(* Properties of block production *)

\* the block ids for which the tallies of the engine hold a vote of the
\* local validator
OwnVotes ==
    {key[1] : key \in {k \in DOMAIN engine.votes :
                          Contains(engine.votes[k].voters, node.local_validator.id)}}

\* C33: every block id the node has voted for or recorded in its applied
\* set is the id under which the engine holds a proposal in its block tree,
\* the hash of the block that was signed and proposed
C33_VotesForProposed ==
    OwnVotes \cup node.applied \subseteq DOMAIN engine.block_tree

\* the ids of the blocks handled as proposals of the peer: what the node
\* voted for and recorded is what the peer proposed
InboundVotesForProposed ==
    \A id \in OwnVotes \cup node.applied :
        (id \in DOMAIN node.block_store
            /\ node.block_store[id].header.proposer_id # node.local_validator.owner)
        => id \in DOMAIN engine.block_tree

\* the transaction is in a block of the list of blocks of the node n
InAppliedBlock(n, tx) ==
    \E k \in 1..Len(n.blocks) : Contains(n.blocks[k].transactions, tx)

\* C37: drained transactions are not lost: after a turn of the production
\* loop, every transaction build_block took out of the mempool is in a block
\* the node has applied or, the block having failed in execute_and_record or
\* in propose, is in the mempool again, eligible for a later block.
C37_DrainedNotLost ==
    [][(ProductionTurn /\ node.mempool # <<>>) =>
           \A tx \in NodeTxs :
               Contains(node.mempool, tx) =>
                   InAppliedBlock(node', tx) \/ Contains(node'.mempool, tx)]_vars

\* the local validator is the leader of the current view
LeadsView ==
    \E i \in 1..Len(engine.validators) :
        /\ leader_for_view(engine, engine.view) = <<engine.validators[i]>>
        /\ engine.validators[i].id = node.local_validator.id

\* the step adds a block of the local validator to the list of blocks
LocallyBuilt ==
    /\ Len(node'.blocks) = Len(node.blocks) + 1
    /\ node'.blocks[Len(node'.blocks)].header.proposer_id = node.local_validator.owner

\* C25 (leader gate): a production tick of a node with a local validator builds,
\* executes and proposes a block only if that validator is
\* leader_for_view(current_view) and the mempool is not empty; any other tick
\* leaves the mempool, the chain state, the list of blocks and the consensus
\* state as they are.
C25_LeaderGate ==
    [][(ProductionTurn \/ LocallyBuilt) =>
           \/ LeadsView /\ node.mempool # <<>>
           \/ UNCHANGED <<node, state_store, domain_runtime, engine>>]_vars

\* the mempool of a node with a local validator holds a transaction in a view
\* the peer leads
C25_Witness ==
    /\ node.local_validator # None
    /\ node.mempool # <<>>
    /\ ~LeadsView

----------------------------------------------------------------------------
(* Properties of the mempool *)

Indexed(tx) == tx_hash(tx) \in DOMAIN node.tx_index

\* the mempool is within its limit, holds only signed transactions, holds none
\* twice and none that a recorded block has indexed
MempoolAdmitted ==
    /\ Len(node.mempool) <= MEMPOOL_LIMIT
    /\ \A i \in 1..Len(node.mempool) :
           /\ verify_tx_signature(node.mempool[i]) # None
           /\ ~Indexed(node.mempool[i])
           /\ \A j \in 1..Len(node.mempool) :
                  tx_hash(node.mempool[i]) = tx_hash(node.mempool[j]) => i = j

\* C23 (mempool admission): however enqueue_tx calls interleave with block
\* building and block application, the mempool holds at most MEMPOOL_LIMIT
\* transactions, all with valid signatures, no two with the same hash and none
\* whose hash is in the tx index of the node.
C23_MempoolAdmission == MempoolAdmitted

----------------------------------------------------------------------------
(* Properties of the data availability layer *)

\* the blob was submitted with at least one byte
NonEmptyBlob(blob_id) ==
    blob_id \in DOMAIN da_layer.meta /\ da_layer.meta[blob_id].size_bytes >= 1

\* on some level of a tree of n leaves the node above leaf idx is the last of
\* an odd level, so that its sibling is missing
RECURSIVE MissingSibling(_, _)
MissingSibling(n, idx) ==
    /\ n > 1
    /\ \/ idx % 2 = 0 /\ idx + 1 >= n
       \/ MissingSibling((n + 1) \div 2, idx \div 2)

\* the sample carries the hash of the shard it names and its path leads from
\* that hash to the root of the commitment
SampleRecomputesRoot(proof, s) ==
    LET sample == proof.samples[s]
        shards == da_layer.shards[proof.blob_id]
    IN  /\ sample.shard_index < Len(shards)
        /\ sample.shard_hash = blake3(shards[sample.shard_index + 1])
        /\ fold_path(sample.shard_hash, sample.merkle_path, 1, sample.shard_index)
               = proof.commitment.root

\* C19 (DA proof soundness): for a blob of at least one byte submitted under
\* the default configuration, the proof prove_blob_availability returns has at
\* most commitment.total_shards samples, every sample's path recomputes the
\* root of the commitment (also where a missing sibling is duplicated),
\* verify_da_proof accepts the proof as returned, and sample returns Ok(true).
C19_ProofSoundness ==
    da_layer # IdleDa =>
        /\ (da_layer.held # None /\ NonEmptyBlob(da_layer.held.blob_id)) =>
               /\ Len(da_layer.held.samples) <= da_layer.held.commitment.total_shards
               /\ \A s \in 1..Len(da_layer.held.samples) :
                      SampleRecomputesRoot(da_layer.held, s)
               /\ verify_da_proof(da_layer.held)
        /\ (/\ da_layer.last.op = "verify_da_proof"
            /\ DaArg(da_layer.last)[1] = "none"
            /\ NonEmptyBlob(DaArg(da_layer.last)[2])) => DaRet(da_layer.last)
        /\ (da_layer.last.op = "sample" /\ NonEmptyBlob(DaArg(da_layer.last)[1])) =>
               da_layer.last.ok /\ DaRet(da_layer.last)

\* the client holds the proof of a blob of at least one byte, with a sample
\* whose path passes a level where the sibling is missing
C19_Witness ==
    /\ da_layer # IdleDa
    /\ da_layer.held # None
    /\ NonEmptyBlob(da_layer.held.blob_id)
    /\ \E s \in 1..Len(da_layer.held.samples) :
           /\ MissingSibling(da_layer.held.commitment.total_shards,
                             da_layer.held.samples[s].shard_index)
           /\ SampleRecomputesRoot(da_layer.held, s)

\* the shards of a blob: its bytes cut every shard_size bytes, the last piece
\* padded with zeros, then all-zero shards up to data_shards
DataShardsOf(blob_bytes, shards, commitment) ==
    /\ Len(shards) >= commitment.data_shards
    /\ \A k \in 1..commitment.data_shards :
           /\ Len(shards[k]) = commitment.shard_size
           /\ \A i \in 1..commitment.shard_size :
                  shards[k][i] =
                      IF (k - 1) * commitment.shard_size + i <= Len(blob_bytes)
                      THEN blob_bytes[(k - 1) * commitment.shard_size + i] ELSE 0
    /\ Len(blob_bytes) <= commitment.data_shards * commitment.shard_size

\* C21 (DA shard geometry): the commitment of every submitted blob has
\* total_shards = data_shards + parity_shards, the stored shards being exactly
\* data_shards data shards of shard_size bytes holding the bytes of the blob
\* (the last one padded with zeros) followed by parity_shards parity shards,
\* whatever the length of the blob.
C21_ShardGeometry ==
    da_layer # IdleDa =>
        \A blob_id \in DOMAIN da_layer.commitments :
            LET commitment == da_layer.commitments[blob_id]
                shards == da_layer.shards[blob_id]
            IN  /\ commitment.total_shards = commitment.data_shards + commitment.parity_shards
                /\ Len(shards) = commitment.total_shards
                /\ DataShardsOf(da_layer.inner[blob_id], shards, commitment)

\* the call names a blob the layer holds
KnownBlob(blob_id) == blob_id \in DOMAIN da_layer.shards

DaStores(d) == <<d.inner, d.meta, d.shards, d.commitments>>

\* a call of sample on a stored blob went through as many proofs as it was
\* asked for, and returned Ok(true) as they all verified
SampleChecksAll ==
    IF da_layer'.last.op = "sample"
    THEN KnownBlob(DaArg(da_layer'.last)[1]) =>
             /\ da_layer'.checked = DaArg(da_layer'.last)[2]
             /\ da_layer'.last.ok = TRUE
    ELSE TRUE

\* a call that names no stored blob returned an error and left the stores alone
UnknownBlobRejected ==
    (/\ da_layer'.last.op \in {"sample", "get_blob", "prove_blob_availability",
                               "get_commitment"}
     /\ ~KnownBlob(IF da_layer'.last.op = "sample" THEN DaArg(da_layer'.last)[1]
                   ELSE DaArg(da_layer'.last))) =>
        /\ ~da_layer'.last.ok
        /\ DaStores(da_layer') = DaStores(da_layer)
        /\ da_layer'.held = da_layer.held

\* C22 (sampling contract): sample(blob_id, n) on a stored blob derives and
\* checks n sample proofs and returns true exactly when all of them verify
\* against the stored root; sample, get_blob, prove_blob_availability and
\* get_commitment on an unknown blob_id return an error and leave the state of
\* the layer unchanged.
C22_SamplingContract == [][SampleChecksAll /\ UnknownBlobRejected]_vars

\* the part of the sampling contract about unknown blobs, on its own
UnknownBlobsRejected == [][UnknownBlobRejected]_vars

\* C20 (DA tamper detection): verify_da_proof returns false for a proof of
\* prove_blob_availability in which the root of the commitment was replaced by
\* a different value, a sibling of a sample's path was altered or one was
\* appended, or a sample's shard_hash was altered.
C20_TamperDetected ==
    (/\ da_layer # IdleDa
     /\ da_layer.last.op = "verify_da_proof"
     /\ DaArg(da_layer.last)[1] # "none") => ~DaRet(da_layer.last)

\* a proof with a sibling appended to a path was verified
C20_Witness ==
    /\ da_layer # IdleDa
    /\ da_layer.last.op = "verify_da_proof"
    /\ DaArg(da_layer.last)[1] = "append"
    /\ ~DaRet(da_layer.last)

----------------------------------------------------------------------------
(* Properties of governance *)

\* the stored proposal id is in one of the statuses
StoredAs(id, statuses) ==
    /\ id \in DOMAIN state_store.proposals
    /\ state_store.proposals[id].status \in statuses

\* the stored proposal id is Active and its voting window has closed: a
\* GovernanceVote is refused from now on
WindowClosed(id) ==
    /\ StoredAs(id, {"Active"})
    /\ clock > state_store.proposals[id].end

\* the recorded votes of the stored proposal id meet quorum and approval
ThresholdsMet(id) ==
    /\ quorum_met(state_store.proposals[id], state_store.governance_params)
    /\ approval_met(state_store.proposals[id], state_store.governance_params)

\* the timelock of the stored Queued proposal id has run out
TimelockOver(id) ==
    /\ StoredAs(id, {"Queued"})
    /\ state_store.proposals[id].eta # None
    /\ state_store.proposals[id].eta[1] <= clock

PassedIsQueued ==
    \A id \in UuidPool :
        (WindowClosed(id) /\ ThresholdsMet(id)) ~> StoredAs(id, {"Queued", "Executed"})

FailedIsDefeated ==
    \A id \in UuidPool :
        (WindowClosed(id) /\ ~ThresholdsMet(id)) ~> StoredAs(id, {"Defeated"})

QueuedIsExecuted ==
    \A id \in UuidPool : TimelockOver(id) ~> StoredAs(id, {"Executed"})

\* no transaction of the clients changes the stored status of a proposal
\* that is still Active after its voting window
ClosedStaysActive ==
    [][\A id \in UuidPool : WindowClosed(id) => StoredAs(id, {"Active"})']_vars

\* C26: while the clients keep sending governance transactions, an Active
\* proposal whose voting window has closed is stored as Queued when its votes
\* meet quorum and approval and as Defeated when they do not, and a Queued
\* proposal whose timelock is over is stored as Executed
C26_GovernanceLifecycle ==
    /\ PassedIsQueued
    /\ FailedIsDefeated
    /\ QueuedIsExecuted

\* the stored status of proposal id becomes Executed in this step
BecomesExecuted(id) ==
    /\ ~StoredAs(id, {"Executed"})
    /\ StoredAs(id, {"Executed"})'

\* this step is a GovernanceExecute for proposal id
ExecuteApplied(id) ==
    \E call \in LifecycleCalls({id}) :
        /\ call[3].kind = "GovernanceExecute"
        /\ SubmitGovernance(call)

\* the distinct approvals of the stored proposal id that come from signers
\* of the multisig roster
RosterApprovals(id) ==
    LET approvals == state_store.proposals[id].approvals IN
    {approvals[i] : i \in 1..Len(approvals)}
        \cap {state_store.governance_params.multisig_signers[i] :
                 i \in 1..Len(state_store.governance_params.multisig_signers)}

\* a proposal becomes Executed only through a GovernanceExecute applied while
\* it is stored as Queued and its timelock is over
ExecutedFromQueued ==
    [][\A id \in UuidPool :
          BecomesExecuted(id) => ExecuteApplied(id) /\ TimelockOver(id)]_vars

\* C27: a proposal becomes Executed only through a GovernanceExecute applied
\* while it is stored as Queued, the time is at or after its eta, and at
\* least multisig_threshold distinct signers of the roster have approved it
C27_ExecutionSafety ==
    [][\A id \in UuidPool :
          BecomesExecuted(id) =>
              /\ ExecuteApplied(id)
              /\ TimelockOver(id)
              /\ Cardinality(RosterApprovals(id))
                     >= state_store.governance_params.multisig_threshold]_vars

----------------------------------------------------------------------------
(* Properties of the runtime *)

SumAmounts(entries) == SumSeq([i \in 1..Len(entries) |-> entries[i].amount])
SumStakes(rows) == SumSeq([i \in 1..Len(rows) |-> rows[i].stake])

\* everything the chain state holds: balances, stakes, fee pools, pending
\* unbondings and shielded totals
Held(chain) ==
    SumOver([a \in DOMAIN chain.accounts |-> chain.accounts[a].balance_x],
            DOMAIN chain.accounts)
    + SumOver([id \in DOMAIN chain.validators |-> chain.validators[id].stake],
              DOMAIN chain.validators)
    + chain.fee_pools.l1_gas + chain.fee_pools.da + chain.fee_pools.sequencer
    + chain.fee_pools.treasury
    + SumAmounts(chain.pending_unbonds)
    + SumOver([k \in DOMAIN chain.privacy_pools |-> chain.privacy_pools[k].total_shielded],
              DOMAIN chain.privacy_pools)

\* C2: after any sequence of successfully applied blocks, the balances, the
\* stakes, the four fee pools, the pending unbondings and the shielded totals
\* add up to total_supply
C2_SupplyConservation ==
    clean => Held(state_store) = state_store.total_supply

\* C3: apply_block is all-or-nothing.  After Err the store equals the store
\* before the call; after Ok every transaction of the block was applied, in
\* header order, and the state root commits to the resulting state
C3_BlockAtomicity ==
    run.stage # "none" =>
        /\ ~run.ok => run.after = run.before
        /\ run.ok =>
              /\ Len(run.steps) = run.held
              /\ \A i \in 1..Len(run.steps) :
                    /\ run.steps[i].ok
                    /\ run.steps[i].pre =
                          IF i = 1 THEN run.before ELSE run.steps[i - 1].post
              /\ run.after_txs =
                    IF run.steps = <<>> THEN run.before
                    ELSE run.steps[Len(run.steps)].post
              /\ \E orders \in IterationOrders(run.after) :
                    run.state_root = state_root(run.after, orders)

NoDuplicates(seq) == \A i, j \in 1..Len(seq) : i # j => seq[i] # seq[j]

SpentIn(chain, nullifier) ==
    \E k \in DOMAIN chain.privacy_pools :
        Contains(chain.privacy_pools[k].nullifiers, nullifier)

\* the states a block goes through: the store before and after each
\* transaction, and the store the call leaves
StatesOfRun ==
    {state_store} \cup {run.steps[i].post : i \in 1..Len(run.steps)}

\* C4: no nullifier appears twice in the nullifier set of a privacy pool, and
\* a PrivacyWithdraw whose nullifier is in the set fails and leaves the state
\* as it was, whatever its recipient, amount or proof
C4_DoubleSpendImmunity ==
    /\ \A chain \in StatesOfRun : \A k \in DOMAIN chain.privacy_pools :
          NoDuplicates(chain.privacy_pools[k].nullifiers)
    /\ \A i \in 1..Len(run.steps) :
          LET step == run.steps[i] IN
          (step.tx.payload.kind = "PrivacyWithdraw"
              /\ SpentIn(step.pre, step.tx.payload.nullifier))
          => (~step.ok /\ step.post = step.pre)

\* a withdrawal that carries a spent nullifier, the root of the pool, a
\* commitment of the pool and a proof that verifies was tried
C4_Witness ==
    \E i \in 1..Len(run.steps) :
        LET step == run.steps[i]
            p == step.tx.payload
        IN /\ p.kind = "PrivacyWithdraw"
           /\ SpentIn(step.pre, p.nullifier)
           /\ step.pre.privacy_pools[Shielded].merkle_root = p.merkle_root
           /\ Contains(step.pre.privacy_pools[Shielded].commitments, p.commitment)
           /\ step.pre.privacy_pools[Shielded].total_shielded >= p.amount
           /\ verify_privacy_withdraw(
                 [nullifier |-> p.nullifier, merkle_root |-> p.merkle_root,
                  recipient |-> p.recipient, amount |-> p.amount,
                  commitment |-> p.commitment], p.proof)
           /\ p.recipient = A2
           /\ ~step.ok

Delegated(chain, id) ==
    SumStakes(SelectSeq(chain.delegations, LAMBDA row : row.validator_id = id))

\* C7: the stake of every validator covers the delegations made to it
C7_StakeCoversDelegations ==
    \A id \in DOMAIN state_store.validators :
        state_store.validators[id].stake >= Delegated(state_store, id)

NonceOf(chain, a) == get_account(chain, a).nonce

\* C8: a transaction that succeeds carried the nonce its sender held and
\* raised that nonce by one and no other; a transaction that fails changes
\* no nonce
C8_NonceMonotonicity ==
    \A i \in 1..Len(run.steps) :
        LET step == run.steps[i]
            sender == address_from_pubkey(step.tx.public_key)
            holders == DOMAIN step.pre.accounts \cup DOMAIN step.post.accounts
                       \cup {sender}
        IN /\ step.ok =>
                /\ step.tx.nonce = NonceOf(step.pre, sender)
                /\ NonceOf(step.post, sender) = NonceOf(step.pre, sender) + 1
                /\ \A a \in holders \ {sender} :
                      NonceOf(step.post, a) = NonceOf(step.pre, a)
           /\ ~step.ok =>
                \A a \in holders : NonceOf(step.post, a) = NonceOf(step.pre, a)

\* C16 (failing transactions have no effect): whenever apply_tx returns an
\* error the store is exactly as before the call: every account's balance and
\* nonce and the whole ChainState.
C16_FailedTxNoEffect ==
    \A i \in 1..Len(run.steps) :
        ~run.steps[i].ok => run.steps[i].post = run.steps[i].pre

PendingOf(chain, owner) ==
    SumAmounts(SelectSeq(chain.pending_unbonds, LAMBDA entry : entry.owner = owner))

\* C9: an Unstake or Undelegate changes the balance of its sender by the gas
\* fee only and leaves an entry that matures unbonding_delay_blocks later; no
\* entry that has matured outlives an applied block; and what an owner was
\* credited and what it still has pending add up to what it asked for, so
\* every unbonding is credited once
C9_UnbondingDelay ==
    /\ \A i \in 1..Len(run.steps) :
          LET step == run.steps[i]
              sender == address_from_pubkey(step.tx.public_key)
              fee == gas_cost(step.tx.payload)
                        * effective_gas_price(step.tx, exec_ctx.base_fee)
          IN (step.ok /\ step.tx.payload.kind \in {"Unstake", "Undelegate"}) =>
                /\ get_account(step.post, sender).balance_x
                      = get_account(step.pre, sender).balance_x - fee
                /\ Len(step.post.pending_unbonds) = Len(step.pre.pending_unbonds) + 1
                /\ LET entry == step.post.pending_unbonds[Len(step.post.pending_unbonds)]
                   IN /\ entry.owner = sender
                      /\ entry.amount = step.tx.payload.amount
                      /\ entry.release_height
                            = run.height + exec_ctx.unbonding_delay_blocks
    /\ (run.stage # "none" /\ run.ok) =>
          \A j \in 1..Len(state_store.pending_unbonds) :
              state_store.pending_unbonds[j].release_height > run.height
    /\ workload \in Workloads =>
          \A a \in Addresses :
              unbond_credited[a] + PendingOf(state_store, a) = unbond_requested[a]

\* C5: two replicas that apply the same blocks from the same genesis agree
\* after every block: both accept it or both reject it, and when they accept
\* it they obtain the same state root
C5_StateRootDeterminism ==
    run.stage # "none" =>
        /\ run.ok = peer.ok
        /\ (run.ok /\ peer.ok) => run.state_root = peer.state_root

IsPrefix(a, b) == Len(a) <= Len(b) /\ SubSeq(b, 1, Len(a)) = a

\* C6: blocks change the chain state in the order in which the node drains
\* them from the commit queue, which is the order in which their quorum
\* certificates formed; a block's transactions change the chain state only
\* once the block has been certified and drained
C6_ExecutionFollowsCommit ==
    /\ IsPrefix(history.drained, history.certified)
    /\ IsPrefix(history.applied, history.drained)

\* the sender of the transaction of a step, the gas fee it is charged and
\* the balance an address holds in a chain state
SenderOf(step) == address_from_pubkey(step.tx.public_key)
FeeOf(step) == gas_cost(step.tx.payload) * effective_gas_price(step.tx, exec_ctx.base_fee)
BalanceOf(chain, a) == get_account(chain, a).balance_x

\* step is a PrivacyWithdraw that returned Ok
Withdrawn(step) == step.ok /\ step.tx.payload.kind = "PrivacyWithdraw"

\* C28: a successful PrivacyWithdraw adds its nullifier to the spent set of
\* the pool, lowers total_shielded by its amount and raises the balance of
\* the recipient by its amount: by the amount less the gas fee when the
\* recipient is the sender
C28_WithdrawEffect ==
    \A i \in 1..Len(run.steps) :
        LET step == run.steps[i]
            p == step.tx.payload
        IN Withdrawn(step) =>
              /\ ~SpentIn(step.pre, p.nullifier)
              /\ Contains(step.post.privacy_pools[Shielded].nullifiers, p.nullifier)
              /\ step.post.privacy_pools[Shielded].total_shielded
                    = step.pre.privacy_pools[Shielded].total_shielded - p.amount
              /\ BalanceOf(step.post, p.recipient)
                    = BalanceOf(step.pre, p.recipient) + p.amount
                      - (IF p.recipient = SenderOf(step) THEN FeeOf(step) ELSE 0)

\* the effect on the pool and on a recipient other than the sender
WithdrawToOther ==
    \A i \in 1..Len(run.steps) :
        LET step == run.steps[i]
            p == step.tx.payload
        IN (Withdrawn(step) /\ p.recipient # SenderOf(step)) =>
              /\ Contains(step.post.privacy_pools[Shielded].nullifiers, p.nullifier)
              /\ step.post.privacy_pools[Shielded].total_shielded
                    = step.pre.privacy_pools[Shielded].total_shielded - p.amount
              /\ BalanceOf(step.post, p.recipient) = BalanceOf(step.pre, p.recipient) + p.amount

WithdrawToOtherSeen ==
    \E i \in 1..Len(run.steps) :
        Withdrawn(run.steps[i]) /\ run.steps[i].tx.payload.recipient # SenderOf(run.steps[i])

\* step is a Stake that returned Ok
Staked(step) == step.ok /\ step.tx.payload.kind = "Stake"

\* the ids of the validator records of an owner
RecordsOf(chain, owner) ==
    {id \in DOMAIN chain.validators : chain.validators[id].owner = owner}

\* what a Stake leaves for a sender that owned a record: the record with
\* the amount added and status Active, and no other record
StakeAdded(step) ==
    LET before == RecordsOf(step.pre, SenderOf(step)) IN
    before # {} =>
        /\ RecordsOf(step.post, SenderOf(step)) = before
        /\ \A id \in before :
              /\ step.post.validators[id].stake
                    = step.pre.validators[id].stake + step.tx.payload.amount
              /\ step.post.validators[id].status = "Active"

\* what a Stake leaves for a sender that owned no record: one record, which
\* carries the owner, the amount and status Active
StakeCreated(step) ==
    LET after == RecordsOf(step.post, SenderOf(step)) IN
    RecordsOf(step.pre, SenderOf(step)) = {} =>
        /\ Cardinality(after) = 1
        /\ DOMAIN step.post.validators = DOMAIN step.pre.validators \cup after
        /\ \A id \in after :
              /\ step.post.validators[id].stake = step.tx.payload.amount
              /\ step.post.validators[id].status = "Active"

\* the record a Stake creates carries the public key of the sender and the
\* identifier derived from it
StakeKeyed(step) ==
    RecordsOf(step.pre, SenderOf(step)) = {} =>
        \A id \in RecordsOf(step.post, SenderOf(step)) :
            /\ id = validator_id_from_pubkey(step.tx.public_key)
            /\ step.post.validators[id].id = id
            /\ step.post.validators[id].pubkey = step.tx.public_key

OnePerOwner(chain) ==
    \A a \in Addresses : Cardinality(RecordsOf(chain, a)) <= 1

\* C29: a Stake by a sender without a validator record creates one record
\* with owner the sender, id the UUIDv5 of the sender's public key, pubkey
\* that public key, stake the amount and status Active; by a sender with a
\* record it adds the amount to that record and sets it Active; no owner
\* holds two records
C29_StakeEffect ==
    /\ \A i \in 1..Len(run.steps) :
          Staked(run.steps[i]) =>
              /\ StakeAdded(run.steps[i])
              /\ StakeCreated(run.steps[i])
              /\ StakeKeyed(run.steps[i])
    /\ \A chain \in StatesOfRun : OnePerOwner(chain)

\* the claim without the identifier and the public key of a new record
StakeCounted ==
    /\ \A i \in 1..Len(run.steps) :
          Staked(run.steps[i]) =>
              StakeAdded(run.steps[i]) /\ StakeCreated(run.steps[i])
    /\ \A chain \in StatesOfRun : OnePerOwner(chain)

\* a Stake reactivated an Exited validator; a Stake created a record
StakeReactivated ==
    \E i \in 1..Len(run.steps) :
        /\ Staked(run.steps[i])
        /\ \E id \in RecordsOf(run.steps[i].pre, SenderOf(run.steps[i])) :
              run.steps[i].pre.validators[id].status = "Exited"
StakeCreatedSeen ==
    \E i \in 1..Len(run.steps) :
        Staked(run.steps[i]) /\ RecordsOf(run.steps[i].pre, SenderOf(run.steps[i])) = {}

\* step tried a Transfer
Transferring(step) == step.tx.payload.kind = "Transfer"

\* the signature, the chain id and the nonce of the transaction of a step
\* are valid
WellFormed(step) ==
    /\ verify_tx_signature(step.tx) # None
    /\ step.tx.chain_id = exec_ctx.chain_id
    /\ NonceOf(step.pre, SenderOf(step)) = step.tx.nonce

\* the sender of a Transfer holds the amount and the gas fee
Funded(step) ==
    ~ULt(BalanceOf(step.pre, SenderOf(step)), step.tx.payload.amount + FeeOf(step))

\* the balance of the recipient of a Transfer, once the sender is debited,
\* can take the amount
Creditable(step) ==
    LET held == BalanceOf(step.pre, step.tx.payload.to)
        debit == IF step.tx.payload.to = SenderOf(step)
                 THEN step.tx.payload.amount + FeeOf(step) ELSE 0
    IN checked_add(held - debit, step.tx.payload.amount) # None

\* what a Transfer that returned Ok has done: the balances, the nonces and
\* the fee pools
Transferred(step) ==
    LET p == step.tx.payload
        f == FeeOf(step)
        sender == SenderOf(step)
    IN /\ BalanceOf(step.post, sender)
             = BalanceOf(step.pre, sender) - (p.amount + f)
               + (IF p.to = sender THEN p.amount ELSE 0)
       /\ p.to # sender =>
             BalanceOf(step.post, p.to) = BalanceOf(step.pre, p.to) + p.amount
       /\ NonceOf(step.post, sender) = NonceOf(step.pre, sender) + 1
       /\ \A a \in Addresses \ {sender} : NonceOf(step.post, a) = NonceOf(step.pre, a)
       /\ step.post.fee_pools.treasury
             = step.pre.fee_pools.treasury
               + (f * exec_ctx.fee_split.l1_gas_burn_pct) \div 100
       /\ step.post.fee_pools.l1_gas
             = step.pre.fee_pools.l1_gas
               + (f * exec_ctx.fee_split.l1_gas_validators_pct) \div 100

\* step is the transfer of 10 with max_fee 1 applied to the genesis that
\* funds its sender with 1,000,000, and it returned Ok
FirstCappedTransfer(step) ==
    /\ workload = "transfer"
    /\ step.ok
    /\ step.tx = CappedTransfer(0)
    /\ BalanceOf(step.pre, A1) = 1000000
    /\ BalanceOf(step.pre, A2) = 0

----------------------------------------------------------------------------
(* Properties of delegation *)

\* step tried an Undelegate
Undelegating(step) == step.tx.payload.kind = "Undelegate"

\* the sum of the delegation rows of a delegator with a validator
DelegatedTo(chain, delegator, validator_id) ==
    SumSeq([i \in 1..Len(chain.delegations) |->
               IF /\ chain.delegations[i].delegator = delegator
                  /\ chain.delegations[i].validator_id = validator_id
               THEN chain.delegations[i].stake ELSE 0])

\* the validator an Undelegate names exists, the rows of the sender with it
\* sum to the amount or more, and the sender can pay the gas fee
Covered(step) ==
    LET found == find_validator(step.pre, step.tx.payload.validator) IN
    /\ WellFormed(step)
    /\ found # None
    /\ DelegatedTo(step.pre, SenderOf(step), found[1]) >= step.tx.payload.amount
    /\ ~ULt(BalanceOf(step.pre, SenderOf(step)), FeeOf(step))

\* the validator still holds the amount as stake: it has not unstaked or
\* lost to a slash what was delegated to it
Backed(step) ==
    LET found == find_validator(step.pre, step.tx.payload.validator) IN
    /\ Covered(step)
    /\ step.pre.validators[found[1]].stake >= step.tx.payload.amount

\* the first row of the sender with the validator covers the amount alone
CoveredByFirstRow(step) ==
    LET found == find_validator(step.pre, step.tx.payload.validator)
        row == first_delegation(step.pre.delegations, SenderOf(step), found[1])
    IN /\ Backed(step)
       /\ row # 0
       /\ step.pre.delegations[row].stake >= step.tx.payload.amount

\* what an Undelegate is to do: Ok, the delegation of the sender and the
\* stake of the validator lower by the amount, no row of stake 0 left, and
\* one Unbonding of the amount appended
Undelegated(step) ==
    LET id == find_validator(step.pre, step.tx.payload.validator)[1]
        amount == step.tx.payload.amount
    IN /\ step.ok
       /\ DelegatedTo(step.post, SenderOf(step), id)
             = DelegatedTo(step.pre, SenderOf(step), id) - amount
       /\ step.post.validators[id].stake = step.pre.validators[id].stake - amount
       /\ \A k \in 1..Len(step.post.delegations) : step.post.delegations[k].stake > 0
       /\ Len(step.post.pending_unbonds) = Len(step.pre.pending_unbonds) + 1
       /\ SubSeq(step.post.pending_unbonds, 1, Len(step.pre.pending_unbonds))
             = step.pre.pending_unbonds
       /\ LET entry == step.post.pending_unbonds[Len(step.post.pending_unbonds)] IN
             /\ entry.owner = SenderOf(step)
             /\ entry.validator_id = Some(id)
             /\ entry.amount = amount

\* C38: an Undelegate succeeds whenever the delegation rows of the sender to
\* the validator sum to the amount or more and the gas fee is affordable,
\* also when the stake is spread over several rows; it lowers the total
\* delegation of the sender and the stake of the validator by the amount,
\* removes the rows that reach 0 and enqueues one Unbonding of the amount.
C38_UndelegateOverRows ==
    \A i \in 1..Len(run.steps) :
        (Undelegating(run.steps[i]) /\ Covered(run.steps[i])) => Undelegated(run.steps[i])

\* the same where the validator still holds the amount
UndelegateBacked ==
    \A i \in 1..Len(run.steps) :
        (Undelegating(run.steps[i]) /\ Backed(run.steps[i])) => Undelegated(run.steps[i])

\* the same for an amount the first row covers alone, the validator still
\* holding it
UndelegateFirstRow ==
    \A i \in 1..Len(run.steps) :
        (Undelegating(run.steps[i]) /\ CoveredByFirstRow(run.steps[i]))
            => Undelegated(run.steps[i])

----------------------------------------------------------------------------
(* Properties of cross-domain messages *)

\* the messages of the inbox of a domain
InboxOf(d, id) == {d.state[id].inbox[k] : k \in 1..Len(d.state[id].inbox)}

\* every message of an inbox is addressed to the domain of the inbox
InboxAddressed ==
    \A id \in DOMAIN domain_runtime.state :
        \A msg \in InboxOf(domain_runtime, id) : msg.to = id

\* every message of an inbox is in the outbox of the domain it names as
\* its source
InboxSent ==
    \A id \in DOMAIN domain_runtime.state :
        \A msg \in InboxOf(domain_runtime, id) :
            Contains(domain_load(domain_runtime, msg.from).outbox, msg)

\* no message is twice in an inbox
InboxOnce ==
    \A id \in DOMAIN domain_runtime.state : NoDuplicates(domain_runtime.state[id].inbox)

\* C39: after any sequence of CrossDomainSend and CrossDomainRelay, every
\* message in the inbox of a domain is addressed to that domain, was appended
\* to the outbox of its source domain by a CrossDomainSend, and is in the
\* inbox at most once.
C39_MessageIntegrity == InboxAddressed /\ InboxSent /\ InboxOnce

----------------------------------------------------------------------------
(* Properties of governance votes *)

\* step is a GovernanceVote that returned Ok
VoteAccepted(step) == step.ok /\ step.tx.payload.kind = "GovernanceVote"

\* the stake of the validator record of an owner in a chain state, 0 without
BondedBy(chain, owner) ==
    LET found == find_validator(chain, owner) IN
    IF found = None THEN 0 ELSE chain.validators[found[1]].stake

\* the sum of the weights of the votes recorded on a proposal
RecordedWeight(p) == SumSeq([k \in 1..Len(p.votes) |-> p.votes[k].weight])

\* every address is at most once in the votes of a proposal, and the three
\* tallies add up to the weights recorded, within the stake of the snapshot
TalliesConsistent(chain) ==
    \A id \in DOMAIN chain.proposals :
        LET p == chain.proposals[id] IN
        /\ NoDuplicates([k \in 1..Len(p.votes) |-> p.votes[k].voter])
        /\ p.for_votes + p.against_votes + p.abstain_votes = RecordedWeight(p)
        /\ RecordedWeight(p) <= p.snapshot_total_stake

\* every weight of the snapshot of a proposal is the stake the validator of
\* the address held in the state the proposal was created in, their sum is
\* snapshot_total_stake, and later steps leave the snapshot alone
SnapshotKept(step) ==
    \A id \in DOMAIN step.post.proposals :
        LET p == step.post.proposals[id] IN
        IF id \in DOMAIN step.pre.proposals
        THEN /\ p.voter_weights = step.pre.proposals[id].voter_weights
             /\ p.snapshot_total_stake = step.pre.proposals[id].snapshot_total_stake
        ELSE /\ \A a \in DOMAIN p.voter_weights :
                   p.voter_weights[a] = BondedBy(step.pre, a)
             /\ p.snapshot_total_stake = SumOver(p.voter_weights, DOMAIN p.voter_weights)

\* an accepted vote found the proposal Active at a time now within its
\* window, and added one record of the sender at its weight of the snapshot
VotedAsStated(step, now) ==
    LET id == step.tx.payload.proposal_id
        before == step.pre.proposals[id]
        after == step.post.proposals[id]
        weight == MapGetOr(before.voter_weights, SenderOf(step), 0)
    IN /\ id \in DOMAIN step.pre.proposals
       /\ before.status = "Active"
       /\ now <= before.end
       /\ after.votes = Append(before.votes,
                               [voter |-> SenderOf(step),
                                choice |-> step.tx.payload.support, weight |-> weight])
       /\ after.for_votes + after.against_votes + after.abstain_votes
             = before.for_votes + before.against_votes + before.abstain_votes + weight

\* C40: one governance vote per voter at snapshot weight: for every proposal
\* each address is at most once in votes, a GovernanceVote is accepted only
\* while the proposal is Active and now <= end, the weight added is the stake
\* of the voter's validator as snapshotted when the proposal was created,
\* whatever the stake is later, and for_votes + against_votes + abstain_votes
\* is the sum of the recorded weights and at most snapshot_total_stake.
C40_OneVoteAtSnapshotWeight ==
    [][run' # run =>
          /\ \A k \in 1..Len(run'.steps) :
                /\ TalliesConsistent(run'.steps[k].post)
                /\ SnapshotKept(run'.steps[k])
                /\ VoteAccepted(run'.steps[k]) => VotedAsStated(run'.steps[k], clock)]_vars

\* a vote was accepted from a validator whose stake had changed since the
\* proposal was created, at the weight of the snapshot
C40_Witness ==
    \E k \in 1..Len(run.steps) :
        /\ VoteAccepted(run.steps[k])
        /\ LET p == run.steps[k].post.proposals[run.steps[k].tx.payload.proposal_id] IN
              /\ p.votes[Len(p.votes)].weight # BondedBy(run.steps[k].pre, SenderOf(run.steps[k]))
              /\ p.votes[Len(p.votes)].weight > 0

====
